---- MODULE Spec2Model ----
(***************************************************************************)
(* A model of the signal pipeline of the AI trading agent: the two base    *)
(* strategy scorers, the filter gate, ATR position sizing, the per-symbol  *)
(* loops of leveraged_etf_signals / momentum_smallcap_signals, the HTTP    *)
(* entry points and the fundamentals cache.                                *)
(*                                                                         *)
(* Numbers.  Scores (base score, sentiment, catalyst score) are fixed      *)
(* point with 1.0 == Unit; the combiner's total score and confidence,      *)
(* sums of products of weights and scores, are fixed point with            *)
(* 1.0 == Micro.  Prices are whole currency units, volumes whole shares.   *)
(* A pandas/float value that may be undefined is an option: <<x>> is the   *)
(* number x, <<>> is NaN.                                                  *)
(***************************************************************************)
EXTENDS Integers, Sequences, FiniteSets

VARIABLES
    cfg,        \* AITradingAgent.config
    pc,         \* position of the running signal computation
    req,        \* the HTTP request being served
    strategy,   \* strategy of the running computation
    syms,       \* its symbol list
    rows,       \* rows appended so far by its per-symbol loop
    inp,        \* the inputs read for the symbol processed last
    resp,       \* HTTP status answered for req (0: none yet)
    df,         \* scorer harness: the price frame handed to a scorer
    sentiment,  \* scorer harness: sentiment argument
    texts,      \* scorer harness: texts argument
    result,     \* scorer / sizing harness: what the call returned
    sizing,     \* sizing harness: arguments of _position_size
    cache,      \* data/fundamentals.py _cache
    now,        \* time.time()
    world,      \* the frozen inputs of two successive invocations
    firstRows,  \* rows of the first of two invocations on frozen inputs
    secondRows, \* rows of the second one
    args,       \* leaf harness: the arguments of the call under way
    dataset,    \* data/trading_data_latest.csv: [exists, mtime]
    refreshed,  \* collect_market_data was called by the running computation
    latest,     \* data/trading_signals_latest.csv: the run whose batch it holds
    archives,   \* data/trading_signals_<ts>.csv: timestamp -> run whose batch it holds
    runs        \* signal computations started so far

vars == <<cfg, pc, req, strategy, syms, rows, inp, resp, df, sentiment,
          texts, result, sizing, cache, now, world, firstRows, secondRows,
          args, dataset, refreshed, latest, archives, runs>>

----------------------------------------------------------------------------
(* Bounds of the model *)

\* longest price frame (bars per symbol)
MaxBars == 7

\* fixed point: 1.0
Unit == 10 * 100
\* fixed point of a product of two scores: 1.0
Micro == Unit * Unit

----------------------------------------------------------------------------
(* Float and pandas helpers *)

NaN == <<>>
Num(x) == <<x>>
IsNaN(v) == v = <<>>
Val(v) == v[1]

Max2(a, b) == IF a >= b THEN a ELSE b
Min2(a, b) == IF a <= b THEN a ELSE b
Abs(a) == IF a < 0 THEN -a ELSE a

\* Python's max(min(x, hi), lo) on floats: min(nan, hi) is nan, max(nan, lo) is nan
Clamp(v, lo, hi) == IF IsNaN(v) THEN NaN ELSE Num(Max2(Min2(Val(v), hi), lo))

RECURSIVE SumSeq(_)
SumSeq(s) == IF s = <<>> THEN 0 ELSE s[1] + SumSeq(Tail(s))

RECURSIVE MaxSeq(_)
MaxSeq(s) == IF Len(s) = 1 THEN s[1] ELSE Max2(s[1], MaxSeq(Tail(s)))

\* the last min(w, Len(s)) values: the rolling window ending at the last row
Window(s, w) == SubSeq(s, Max2(1, Len(s) - w + 1), Len(s))

\* floor(sqrt(x)), x >= 0
RECURSIVE ISqrtIn(_, _, _)
ISqrtIn(x, lo, hi) ==
    IF lo >= hi THEN lo
    ELSE LET mid == (lo + hi + 1) \div 2
         IN  IF mid * mid <= x THEN ISqrtIn(x, mid, hi) ELSE ISqrtIn(x, lo, mid - 1)
ISqrt(x) == ISqrtIn(x, 0, Min2(x, 46340))

\* Series.rolling(w, min_periods=m).mean().iloc[-1] as the exact fraction
\* <<sum, count>>, NaN below min_periods
RollingMean(s, w, m) ==
    LET win == Window(s, w)
    IN  IF Len(win) < m THEN NaN ELSE Num(<<SumSeq(win), Len(win)>>)

\* Series.pct_change(k).fillna(0).tail(1).iloc[0] (closes are positive), in Unit
PctChange(s, k) ==
    IF Len(s) <= k THEN 0
    ELSE (Unit * (s[Len(s)] - s[Len(s) - k])) \div s[Len(s) - k]

Column(frame, name) == [i \in 1..Len(frame.rows) |-> frame.rows[i][name]]

\* DataFrame.empty: no rows or no columns
IsEmpty(frame) == frame.rows = <<>> \/ frame.cols = {}

----------------------------------------------------------------------------
(* Price frames.  A frame is [none, cols, rows]: none stands for Python's  *)
(* None, cols are the column names, rows the bars in ascending time.       *)

AllCols == {"high", "low", "close", "volume"}

\* bars the frames are built from: flat cheap, wide mid-priced, expensive
Bars == { [high |-> 1, low |-> 1, close |-> 1, volume |-> 1],
          [high |-> 4, low |-> 2, close |-> 3, volume |-> 2],
          [high |-> 6, low |-> 5, close |-> 6, volume |-> 9] }

NoneDF == [none |-> TRUE, cols |-> {}, rows |-> <<>>]
\* pd.DataFrame()
EmptyDF == [none |-> FALSE, cols |-> {}, rows |-> <<>>]
Frame(bars) == [none |-> FALSE, cols |-> AllCols, rows |-> bars]

----------------------------------------------------------------------------
(* signals/catalyst.py.  A text is modelled by the number of               *)
(* POSITIVE_PATTERNS that match it (0 for the empty string).               *)

RECURSIVE CountMatching(_)
CountMatching(ts) ==
    IF ts = <<>> THEN 0
    ELSE (IF ts[1] > 0 THEN 1 ELSE 0) + CountMatching(Tail(ts))

RECURSIVE CountHits(_)
CountHits(ts) ==
    IF ts = <<>> THEN 0 ELSE ts[1] + CountHits(Tail(ts))

\* catalyst_score adding up the pattern hits of each text
catalyst_score_per_hit(ts) ==
    IF ts = <<>> THEN 0
    ELSE Max2(Min2((Unit * CountHits(ts)) \div Len(ts), Unit), 0)

\* catalyst_score(texts), in Unit
catalyst_score(ts) ==
    IF ts = <<>> THEN 0
    ELSE Max2(Min2((Unit * CountMatching(ts)) \div Len(ts), Unit), 0)

----------------------------------------------------------------------------
(* strategies/leveraged_etf_strategy.py *)

\* ma_fast >= ma_slow instead
MeanGreater_or_equal(a, b) ==
    /\ ~IsNaN(a)
    /\ ~IsNaN(b)
    /\ Val(a)[1] * Val(b)[2] >= Val(b)[1] * Val(a)[2]

\* ma_fast.tail(1).iloc[0] > ma_slow.tail(1).iloc[0]; a comparison with NaN is False
MeanGreater(a, b) ==
    /\ ~IsNaN(a)
    /\ ~IsNaN(b)
    /\ Val(a)[1] * Val(b)[2] > Val(b)[1] * Val(a)[2]

score_leveraged_etf(frame) ==
    IF frame.none \/ IsEmpty(frame) \/ "close" \notin frame.cols THEN Num(0)
    ELSE LET s == Column(frame, "close")
             ma_fast == RollingMean(s, 5, 3)
             ma_slow == RollingMean(s, 20, 5)
             momentum == PctChange(s, 3)
             cross == IF MeanGreater(ma_fast, ma_slow) THEN Unit ELSE -Unit
             base == (600 * cross + 400 * Val(Clamp(Num(momentum * 10), -Unit, Unit))) \div Unit
         IN  Clamp(Num(base), -Unit, Unit)

----------------------------------------------------------------------------
(* strategies/momentum_smallcap_strategy.py *)

\* s.rolling(20, min_periods=5).max().tail(1).iloc[0]
RollingMax(s, w, m) ==
    LET win == Window(s, w) IN IF Len(win) < m THEN NaN ELSE Num(MaxSeq(win))

\* ((v - mean) / std.replace(0,1)).clip(-3,3).tail(1).iloc[0] over the rolling
\* window (20, min_periods=5), sample standard deviation; in Unit
VolumeZ(v) ==
    LET win == Window(v, 20)
        n == Len(win)
        S == SumSeq(win)
        dev == n * v[Len(v)] - S
        Q == SumSeq([i \in 1..n |-> (n * win[i] - S) * (n * win[i] - S)])
        sd == ISqrt((10000 * Q) \div (n - 1))
    IN  IF n < 5 THEN NaN
        ELSE IF Q = 0 THEN Num((Unit * dev) \div n)
        ELSE IF sd = 0 THEN Num(3 * Unit * (IF dev < 0 THEN -1 ELSE 1))
        ELSE Clamp(Num((100 * Unit * dev) \div sd), -3 * Unit, 3 * Unit)

\* the scorer without the check of the volume column: a frame lacking it is
\* scored as one whose rolling volume statistics are undefined
score_smallcap_momentum_unchecked_volume(frame, sent, ts) ==
    IF frame.none \/ IsEmpty(frame) \/ "close" \notin frame.cols
    THEN Num(0)
    ELSE IF "volume" \notin frame.cols THEN NaN
    ELSE LET s == Column(frame, "close")
             ret_5 == PctChange(s, 5)
             hi_20 == RollingMax(s, 20, 5)
             breakout == IF ~IsNaN(hi_20) /\ s[Len(s)] >= Val(hi_20) THEN Unit ELSE -200
             v_z == VolumeZ(Column(frame, "volume"))
         IN  IF IsNaN(v_z) THEN NaN
             ELSE Clamp(Num((450 * Val(Clamp(Num(ret_5 * 10), -Unit, Unit))
                             + 300 * breakout + 150 * (Val(v_z) \div 3)
                             + 100 * Val(Clamp(Num(sent), -Unit, Unit))) \div Unit
                            + (150 * catalyst_score(ts)) \div Unit), -Unit, Unit)

score_smallcap_momentum(frame, sent, ts) ==
    IF frame.none \/ IsEmpty(frame) \/ "close" \notin frame.cols \/ "volume" \notin frame.cols
    THEN Num(0)
    ELSE LET s == Column(frame, "close")
             v == Column(frame, "volume")
             ret_5 == PctChange(s, 5)
             hi_20 == RollingMax(s, 20, 5)
             breakout == IF ~IsNaN(hi_20) /\ s[Len(s)] >= Val(hi_20) THEN Unit ELSE -200
             v_z == VolumeZ(v)
             cat == catalyst_score(ts)
         IN  IF IsNaN(v_z) THEN NaN
             ELSE LET vol_score == Val(v_z) \div 3
                      base == (450 * Val(Clamp(Num(ret_5 * 10), -Unit, Unit))
                               + 300 * breakout + 150 * vol_score
                               + 100 * Val(Clamp(Num(sent), -Unit, Unit))) \div Unit
                              + (150 * cat) \div Unit
                  IN  Clamp(Num(base), -Unit, Unit)

----------------------------------------------------------------------------
(* src/main.py: configuration.  An optional key is an option: <<>> when    *)
(* the key is absent, <<v>> when it is set.  risk is in basis points,      *)
(* atr_k in tenths.                                                        *)

BiotechSectors == {"Biotechnology", "Biotech", "Health Care", "Healthcare"}

BaseConfig ==
    [ min_price |-> 4,
      price_min |-> <<>>,              \* universe_guards.price_min
      min_10d_dollar_volume |-> 0,
      min_avg_volume |-> <<>>,         \* universe_guards.min_avg_volume
      sector_exclude |-> {},
      sectors_biotech |-> BiotechSectors,
      earnings_window_days |-> 2,
      risk_pct |-> 50,
      max_risk_pct_per_trade |-> <<>>, \* risk_params.max_risk_pct_per_trade
      atr_k |-> 15,
      stop_loss_pct |-> 8,             \* risk_params, in percent
      take_profit_pct |-> 20,
      trail_pct |-> 8,
      account_equity |-> 10000 ]

\* configurations a settings.json can hold
Configs ==
    { [BaseConfig EXCEPT !.price_min = pm, !.min_10d_dollar_volume = dv,
                         !.min_avg_volume = av, !.sector_exclude = sx] :
        pm \in {<<>>, <<2>>}, dv \in {0, 10}, av \in {<<>>, <<3>>},
        sx \in {{}, {"Energy"}} }

----------------------------------------------------------------------------
(* src/main.py: filters and sizing helpers *)

\* true range of bar i: max over the defined ones of high-low,
\* |high - prev_close|, |low - prev_close|
TrueRange(bars, i) ==
    LET hl == bars[i].high - bars[i].low
    IN  IF i = 1 THEN hl
        ELSE Max2(hl, Max2(Abs(bars[i].high - bars[i - 1].close),
                           Abs(bars[i].low - bars[i - 1].close)))

\* _atr(df, period=14), in hundredths of a price unit; NaN is reported as 0.0
_atr(frame) ==
    IF IsEmpty(frame) \/ ~({"high", "low", "close"} \subseteq frame.cols) THEN 0
    ELSE LET tr == [i \in 1..Len(frame.rows) |-> TrueRange(frame.rows, i)]
             atr == RollingMean(tr, 14, 14 \div 2)
         IN  IF IsNaN(atr) THEN 0 ELSE (100 * Val(atr)[1]) \div Val(atr)[2]

\* _avg_dollar_volume(df, lookback=10) as the exact fraction <<sum, count>>
_avg_dollar_volume(frame) ==
    IF IsEmpty(frame) \/ ~({"close", "volume"} \subseteq frame.cols) THEN <<0, 1>>
    ELSE LET dol == [i \in 1..Len(frame.rows) |->
                        frame.rows[i].close * frame.rows[i].volume]
             m == RollingMean(dol, 10, Max2(3, 10 \div 2))
         IN  IF IsNaN(m) THEN <<0, 1>> ELSE Val(m)

\* fraction <<sum, count>> < integer
FracLess(f, x) == f[1] < x * f[2]

LastClose(frame) == frame.rows[Len(frame.rows)].close

\* universe_guards.price_min if set, else min_price
PriceMin(c) == IF c.price_min # <<>> THEN c.price_min[1] ELSE c.min_price

\* the gate with the return after the min_price check left out: the name is
\* appended and the later checks go on
_apply_filters_price_falls_through(c, frame, sector, has_recent_biotech_catalyst) ==
    LET avg_vol == RollingMean(Column(frame, "volume"), 10, 5)
        seen == IF LastClose(frame) < PriceMin(c) THEN <<"min_price">> ELSE <<>>
    IN  IF IsEmpty(frame) THEN [ok |-> FALSE, filters |-> <<"no_data">>]
        ELSE IF FracLess(_avg_dollar_volume(frame), c.min_10d_dollar_volume)
            THEN [ok |-> FALSE, filters |-> Append(seen, "min_dollar_vol")]
        ELSE IF /\ c.min_avg_volume # <<>>
                /\ ~IsNaN(avg_vol)
                /\ FracLess(Val(avg_vol), c.min_avg_volume[1])
            THEN [ok |-> FALSE, filters |-> Append(seen, "min_avg_volume")]
        ELSE IF sector # "" /\ sector \in c.sector_exclude
            THEN [ok |-> FALSE, filters |-> Append(seen, "sector_exclude")]
        ELSE IF sector # "" /\ sector \in c.sectors_biotech /\ ~has_recent_biotech_catalyst
            THEN [ok |-> FALSE, filters |-> Append(seen, "biotech_no_catalyst")]
        ELSE [ok |-> TRUE, filters |-> seen]

\* the gate with the sector check moved before the price and volume checks
_apply_filters_sector_first(c, frame, sector, has_recent_biotech_catalyst) ==
    LET avg_vol == RollingMean(Column(frame, "volume"), 10, 5)
    IN  IF IsEmpty(frame) THEN [ok |-> FALSE, filters |-> <<"no_data">>]
        ELSE IF sector # "" /\ sector \in c.sector_exclude
            THEN [ok |-> FALSE, filters |-> <<"sector_exclude">>]
        ELSE IF LastClose(frame) < PriceMin(c)
            THEN [ok |-> FALSE, filters |-> <<"min_price">>]
        ELSE IF FracLess(_avg_dollar_volume(frame), c.min_10d_dollar_volume)
            THEN [ok |-> FALSE, filters |-> <<"min_dollar_vol">>]
        ELSE IF /\ c.min_avg_volume # <<>>
                /\ ~IsNaN(avg_vol)
                /\ FracLess(Val(avg_vol), c.min_avg_volume[1])
            THEN [ok |-> FALSE, filters |-> <<"min_avg_volume">>]
        ELSE IF sector # "" /\ sector \in c.sectors_biotech /\ ~has_recent_biotech_catalyst
            THEN [ok |-> FALSE, filters |-> <<"biotech_no_catalyst">>]
        ELSE [ok |-> TRUE, filters |-> <<>>]

\* the gate rejecting an excluded sector without naming the filter
_apply_filters_unnamed_sector(c, frame, sector, has_recent_biotech_catalyst) ==
    LET avg_vol == RollingMean(Column(frame, "volume"), 10, 5)
    IN  IF IsEmpty(frame) THEN [ok |-> FALSE, filters |-> <<"no_data">>]
        ELSE IF LastClose(frame) < PriceMin(c)
            THEN [ok |-> FALSE, filters |-> <<"min_price">>]
        ELSE IF FracLess(_avg_dollar_volume(frame), c.min_10d_dollar_volume)
            THEN [ok |-> FALSE, filters |-> <<"min_dollar_vol">>]
        ELSE IF /\ c.min_avg_volume # <<>>
                /\ ~IsNaN(avg_vol)
                /\ FracLess(Val(avg_vol), c.min_avg_volume[1])
            THEN [ok |-> FALSE, filters |-> <<"min_avg_volume">>]
        ELSE IF sector # "" /\ sector \in c.sector_exclude
            THEN [ok |-> FALSE, filters |-> <<>>]
        ELSE IF sector # "" /\ sector \in c.sectors_biotech /\ ~has_recent_biotech_catalyst
            THEN [ok |-> FALSE, filters |-> <<"biotech_no_catalyst">>]
        ELSE [ok |-> TRUE, filters |-> <<>>]

\* _apply_filters(symbol, df, sector, has_recent_biotech_catalyst): every failing
\* check appends its name and returns.  sector "" stands for None.
_apply_filters(c, frame, sector, has_recent_biotech_catalyst) ==
    LET avg_vol == RollingMean(Column(frame, "volume"), 10, 5)
    IN  IF IsEmpty(frame) THEN [ok |-> FALSE, filters |-> <<"no_data">>]
        ELSE IF LastClose(frame) < PriceMin(c)
            THEN [ok |-> FALSE, filters |-> <<"min_price">>]
        ELSE IF FracLess(_avg_dollar_volume(frame), c.min_10d_dollar_volume)
            THEN [ok |-> FALSE, filters |-> <<"min_dollar_vol">>]
        ELSE IF /\ c.min_avg_volume # <<>>
                /\ ~IsNaN(avg_vol)
                /\ FracLess(Val(avg_vol), c.min_avg_volume[1])
            THEN [ok |-> FALSE, filters |-> <<"min_avg_volume">>]
        ELSE IF sector # "" /\ sector \in c.sector_exclude
            THEN [ok |-> FALSE, filters |-> <<"sector_exclude">>]
        ELSE IF sector # "" /\ sector \in c.sectors_biotech /\ ~has_recent_biotech_catalyst
            THEN [ok |-> FALSE, filters |-> <<"biotech_no_catalyst">>]
        ELSE [ok |-> TRUE, filters |-> <<>>]

\* risk_params.max_risk_pct_per_trade if set, else risk_pct
RiskPct(c) ==
    IF c.max_risk_pct_per_trade # <<>> THEN c.max_risk_pct_per_trade[1] ELSE c.risk_pct

\* the sizing helper guarding only a negative ATR
_position_size_negative_guard(c, account_equity, atr) ==
    IF atr < 0 THEN [raised |-> FALSE, size |-> 0]
    ELSE IF atr * c.atr_k = 0 THEN [raised |-> TRUE, size |-> 0]
    ELSE [raised |-> FALSE,
          size |-> (account_equity * RiskPct(c) * 100) \div (atr * c.atr_k)]

\* _position_size(account_equity, atr): [raised, size]; raised is the
\* ZeroDivisionError of a float division by atr * k = 0.0; size in thousandths
_position_size(c, account_equity, atr) ==
    IF atr <= 0 THEN [raised |-> FALSE, size |-> 0]
    ELSE IF atr * c.atr_k = 0 THEN [raised |-> TRUE, size |-> 0]
    ELSE [raised |-> FALSE,
          size |-> (account_equity * RiskPct(c) * 100) \div (atr * c.atr_k)]

----------------------------------------------------------------------------
(* signals/volume.py and signals/ta_triggers.py: the frames handed to the  *)
(* combiner, [empty, cols, strength]; strength is the mean of the strength *)
(* column when the frame has one.                                          *)

RECURSIVE Insert(_, _)
Insert(x, s) ==
    IF s = <<>> THEN <<x>>
    ELSE IF x <= s[1] THEN <<x>> \o s ELSE <<s[1]>> \o Insert(x, Tail(s))

RECURSIVE SortedSeq(_)
SortedSeq(s) == IF s = <<>> THEN <<>> ELSE Insert(s[1], SortedSeq(Tail(s)))

\* twice the median of a non-empty sequence (exact for an even count)
Median2(s) ==
    LET t == SortedSeq(s)
        n == Len(t)
    IN  IF n % 2 = 1 THEN 2 * t[(n + 1) \div 2] ELSE t[n \div 2] + t[n \div 2 + 1]

\* row i is a spike: volume > threshold * rolling median, threshold 2.0
IsSpike(v, i, window) ==
    2 * v[i] > 2 * Median2(Window(SubSeq(v, 1, i), window))

\* detect_volume_spikes(price_df): the spike rows, with the added columns
detect_volume_spikes(frame) ==
    LET v == Column(frame, "volume")
    IN  [ empty |-> ~(\E i \in 1..Len(v) : IsSpike(v, i, 20)),
          cols |-> frame.cols \cup {"symbol", "timestamp", "rolling_med", "spike"},
          strength |-> 0 ]

\* generate_ta_triggers returning a signal_strength column of full strength
generate_ta_triggers_with_strength(frame) ==
    [ empty |-> FALSE,
      cols |-> frame.cols \cup {"symbol", "timestamp", "rsi", "macd", "signal",
                                "rsi_signal", "macd_signal", "signal_strength"},
      strength |-> Unit ]

\* generate_ta_triggers(price_df): every row, with the added columns
generate_ta_triggers(frame) ==
    [ empty |-> FALSE,
      cols |-> frame.cols \cup {"symbol", "timestamp", "rsi", "macd", "signal",
                                "rsi_signal", "macd_signal"},
      strength |-> 0 ]

\* pd.DataFrame() as a combiner argument
NoSignals == [empty |-> TRUE, cols |-> {}, strength |-> 0]

----------------------------------------------------------------------------
(* src/main.py: combiner *)

\* the combiner with both thresholds inclusive
calculate_combined_signal_score_inclusive(base, ta_df, vol_df, sent) ==
    LET tech == IF ~ta_df.empty /\ "signal_strength" \in ta_df.cols
                THEN ta_df.strength ELSE 0
        vol == IF ~vol_df.empty /\ "volume_strength" \in vol_df.cols
               THEN vol_df.strength ELSE 0
        total == IF IsNaN(base) THEN NaN
                 ELSE Num(350 * Val(base) + 300 * tech + 200 * vol + 150 * sent)
    IN  [ total_score |-> total,
          action |-> IF ~IsNaN(total) /\ Val(total) >= 600 * Unit THEN "BUY"
                     ELSE IF ~IsNaN(total) /\ Val(total) <= -600 * Unit THEN "SELL"
                     ELSE "HOLD",
          technical_score |-> tech,
          volume_score |-> vol,
          confidence |-> IF IsNaN(total) THEN NaN ELSE Num(Min2(Abs(Val(total)), Micro)) ]

\* calculate_combined_signal_score(base_signal, ta_df, vol_df, sent); base may be
\* NaN.  The weights are in thousandths, so total_score and confidence are in
\* units of 1 / Micro and the sum is exact.
calculate_combined_signal_score(base, ta_df, vol_df, sent) ==
    LET tech == IF ~ta_df.empty /\ "signal_strength" \in ta_df.cols
                THEN ta_df.strength ELSE 0
        vol == IF ~vol_df.empty /\ "volume_strength" \in vol_df.cols
               THEN vol_df.strength ELSE 0
        total == IF IsNaN(base) THEN NaN
                 ELSE Num(350 * Val(base) + 300 * tech + 200 * vol + 150 * sent)
    IN  [ total_score |-> total,
          action |-> IF ~IsNaN(total) /\ Val(total) > 600 * Unit THEN "BUY"
                     ELSE IF ~IsNaN(total) /\ Val(total) < -600 * Unit THEN "SELL"
                     ELSE "HOLD",
          technical_score |-> tech,
          volume_score |-> vol,
          confidence |-> IF IsNaN(total) THEN NaN ELSE Num(Min2(Abs(Val(total)), Micro)) ]

\* signals/__init__.py SignalEngine.generate_trading_decision(signal_data,
\* final_score): the trading signal and the position size (in hundredths) of
\* the returned dict; final_score in units of 1 / Unit
generate_trading_decision(final_score) ==
    IF final_score >= 600 THEN [trading_signal |-> "STRONG_BUY", position_size |-> 100]
    ELSE IF final_score >= 300 THEN [trading_signal |-> "BUY", position_size |-> 75]
    ELSE IF final_score <= -600 THEN [trading_signal |-> "STRONG_SELL", position_size |-> 100]
    ELSE IF final_score <= -300 THEN [trading_signal |-> "SELL", position_size |-> 75]
    ELSE [trading_signal |-> "HOLD", position_size |-> 0]

\* DataFrame.fillna(0) on a numeric cell
FillNa(v) == IF IsNaN(v) THEN 0 ELSE Val(v)

\* 'BUY' if base > 0.5 else ('SELL' if base < -0.5 else 'HOLD'); NaN compares False
BaseAction(base) ==
    IF ~IsNaN(base) /\ Val(base) > 500 THEN "BUY"
    ELSE IF ~IsNaN(base) /\ Val(base) < -500 THEN "SELL"
    ELSE "HOLD"

----------------------------------------------------------------------------
(* Inputs read for one symbol: the frame of get_symbol_data, the value of  *)
(* get_sentiment_score, the texts of _recent_texts_for_symbol, and the     *)
(* dicts returned by fetch_overview and fetch_earnings.                    *)

\* an overview dict; empty is {}; a missing key is ""
\* Symbol is the truth of data.get("Symbol")
NoOverview == [empty |-> TRUE, Symbol |-> FALSE, Sector |-> "", Industry |-> ""]
\* an earnings dict; reported is quarterlyEarnings[0].reportedDate:
\* kind "none" (no such entry), "bad" (not an ISO date), "date" with the
\* whole days from that date to now in age
NoDate == [kind |-> "none", age |-> 0]
NoEarnings == [empty |-> TRUE, reported |-> NoDate]

\* recent_earnings_date(earnings_json)
recent_earnings_date(er) == er.reported

\* fundamentals_meta(symbol), given what the two fetches returned
fundamentals_meta(ov, er) ==
    [ sector |-> IF ov.empty THEN ""
                 ELSE IF ov.Sector # "" THEN ov.Sector ELSE ov.Industry,
      last_earnings_date |-> IF er.empty THEN NoDate ELSE recent_earnings_date(er) ]

\* the earnings window check of momentum_smallcap_signals; a malformed date
\* raises inside the try and leaves earn_block False
EarnBlock(c, last_earn) ==
    /\ last_earn.kind # "none"
    /\ c.earnings_window_days > 0
    /\ last_earn.kind = "date"
    /\ last_earn.age <= c.earnings_window_days

\* x / d rounded to the nearest whole number, a tie to the even one
RoundDiv(x, d) ==
    LET q == x \div d
        r == x % d
    IN  IF 2 * r < d THEN q
        ELSE IF 2 * r > d THEN q + 1
        ELSE IF q % 2 = 0 THEN q ELSE q + 1

\* trade_plan cutting the decimals off instead of rounding
trade_plan_truncating(entry_price, stop_loss_pct, take_profit_pct, trail_pct) ==
    [ stop_loss |-> (entry_price * (100 - stop_loss_pct)) \div 100,
      take_profit_1 |-> (entry_price * (100 + take_profit_pct)) \div 100,
      trail_after_tp1 |-> trail_pct ]

\* trade_plan(entry_price, ...): prices in units of 0.0001, the step that
\* round(..., 4) rounds to; percentages in percent
trade_plan(entry_price, stop_loss_pct, take_profit_pct, trail_pct) ==
    [ stop_loss |-> RoundDiv(entry_price * (100 - stop_loss_pct), 100),
      take_profit_1 |-> RoundDiv(entry_price * (100 + take_profit_pct), 100),
      trail_after_tp1 |-> trail_pct ]

----------------------------------------------------------------------------
(* src/data/fundamentals.py: the TTL cache and the two fetches.  The cache *)
(* is a function from the keys it holds, <<kind, symbol>> for              *)
(* f"{kind}:{symbol}", to [ts, data].  An upstream response is             *)
(* [kind, data]: kind "ok" is status 200 with a JSON dict, "status" a      *)
(* status other than 200, "exception" a request that raised.               *)

_TTL_SECONDS == 3600

Put(ch, k, v) == [x \in DOMAIN ch \cup {k} |-> IF x = k THEN v ELSE ch[x]]
Pop(ch, k) == [x \in DOMAIN ch \ {k} |-> ch[x]]

\* the lookup without the return after the eviction: an expired entry is
\* popped and its data handed out once more
_cache_get_stale(ch, k, t) ==
    IF k \notin DOMAIN ch THEN [hit |-> FALSE, data |-> NoOverview, cache |-> ch]
    ELSE IF t - ch[k].ts > _TTL_SECONDS
        THEN [hit |-> TRUE, data |-> ch[k].data, cache |-> Pop(ch, k)]
    ELSE [hit |-> TRUE, data |-> ch[k].data, cache |-> ch]

\* _cache_get(k) at time t: [hit, data, cache]; hit FALSE stands for None
_cache_get(ch, k, t) ==
    IF k \notin DOMAIN ch THEN [hit |-> FALSE, data |-> NoOverview, cache |-> ch]
    ELSE IF t - ch[k].ts > _TTL_SECONDS
        THEN [hit |-> FALSE, data |-> NoOverview, cache |-> Pop(ch, k)]
    ELSE [hit |-> TRUE, data |-> ch[k].data, cache |-> ch]

\* _cache_set(k, data) at time t
_cache_set(ch, k, data, t) == Put(ch, k, [ts |-> t, data |-> data])

\* fetch_overview(symbol): [data, cache, asked], asked when upstream was contacted
fetch_overview(ch, t, api_key, symbol, upstream) ==
    LET key == <<"overview", symbol>>
        c == _cache_get(ch, key, t)
    IN  IF ~api_key THEN [data |-> NoOverview, cache |-> ch, asked |-> FALSE]
        ELSE IF c.hit /\ ~c.data.empty
            THEN [data |-> c.data, cache |-> c.cache, asked |-> FALSE]
        ELSE IF upstream.kind = "ok" /\ upstream.data.Symbol
            THEN [data |-> upstream.data,
                  cache |-> _cache_set(c.cache, key, upstream.data, t), asked |-> TRUE]
        ELSE [data |-> NoOverview, cache |-> c.cache, asked |-> TRUE]

\* fetch_earnings(symbol): any dict is cached, an empty one too
fetch_earnings(ch, t, api_key, symbol, upstream) ==
    LET key == <<"earnings", symbol>>
        c == _cache_get(ch, key, t)
    IN  IF ~api_key THEN [data |-> NoEarnings, cache |-> ch, asked |-> FALSE]
        ELSE IF c.hit /\ ~c.data.empty
            THEN [data |-> c.data, cache |-> c.cache, asked |-> FALSE]
        ELSE IF upstream.kind = "ok"
            THEN [data |-> upstream.data,
                  cache |-> _cache_set(c.cache, key, upstream.data, t), asked |-> TRUE]
        ELSE [data |-> NoEarnings, cache |-> c.cache, asked |-> TRUE]


----------------------------------------------------------------------------
(* src/main.py: one iteration of the per-symbol loops.  in is the record   *)
(* of inputs [frame, sent, texts, ov, er] read for the symbol.             *)

\* the body of the loop of leveraged_etf_signals, after out.fillna(0)
EtfRow(sym, in) ==
    LET dfp == in.frame
        base == score_leveraged_etf(dfp)
        \* generate_technical_signals / analyze_volume_patterns
        ta == IF IsEmpty(dfp) THEN NoSignals ELSE generate_ta_triggers(dfp)
        vol == IF IsEmpty(dfp) THEN NoSignals ELSE detect_volume_spikes(dfp)
        comb == calculate_combined_signal_score(base, ta, vol, in.sent)
    IN  [ symbol |-> sym,
          strength |-> FillNa(base),
          action |-> BaseAction(base),
          enhanced_strength |-> FillNa(comb.total_score),
          enhanced_action |-> comb.action,
          confidence |-> FillNa(comb.confidence) ]

\* the body of the loop of momentum_smallcap_signals: [raised, row], raised
\* when the iteration ends in an exception (nothing in the loop catches it)
MomentumRow(c, sym, in) ==
    LET dfp == in.frame
        fmeta == fundamentals_meta(in.ov, in.er)
        earn_block == EarnBlock(c, fmeta.last_earnings_date)
        \* placeholder logic
        has_recent_bio_cat == ~earn_block
        base == score_smallcap_momentum(dfp, in.sent, in.texts)
        gate == _apply_filters(c, dfp, fmeta.sector, has_recent_bio_cat)
        ok == gate.ok /\ ~earn_block
        meta == [ filters |-> IF earn_block THEN Append(gate.filters, "earnings_window")
                              ELSE gate.filters,
                  sector |-> fmeta.sector,
                  last_earnings_date |-> fmeta.last_earnings_date ]
        entry == IF IsEmpty(dfp) THEN 0 ELSE LastClose(dfp)
        ta == IF IsEmpty(dfp) THEN NoSignals ELSE generate_ta_triggers(dfp)
        vol == IF IsEmpty(dfp) THEN NoSignals ELSE detect_volume_spikes(dfp)
        comb == calculate_combined_signal_score(base, ta, vol, in.sent)
        plan == IF entry > 0
                THEN <<trade_plan(entry, c.stop_loss_pct, c.take_profit_pct, c.trail_pct)>>
                ELSE <<>>
        atr_val == _atr(dfp)
        sized == _position_size(c, c.account_equity, atr_val)
    IN  IF ~ok
        THEN [ raised |-> FALSE,
               row |-> [ symbol |-> sym,
                         strength |-> FillNa(base),
                         action |-> "HOLD",
                         enhanced_strength |-> 0,
                         enhanced_action |-> "HOLD",
                         confidence |-> 0,
                         entry_price |-> entry,
                         risk_plan |-> <<>>,
                         position_size |-> 0,
                         atr |-> 0,
                         meta |-> meta ] ]
        ELSE [ raised |-> sized.raised,
               row |-> [ symbol |-> sym,
                         strength |-> FillNa(base),
                         action |-> BaseAction(base),
                         enhanced_strength |-> FillNa(comb.total_score),
                         enhanced_action |-> comb.action,
                         confidence |-> FillNa(comb.confidence),
                         entry_price |-> entry,
                         risk_plan |-> plan,
                         position_size |-> sized.size,
                         atr |-> atr_val,
                         meta |-> meta ] ]

\* one loop iteration of either strategy
SymbolRow(c, strat, sym, in) ==
    IF strat = "momentum_smallcap" THEN MomentumRow(c, sym, in)
    ELSE [raised |-> FALSE, row |-> EtfRow(sym, in)]

----------------------------------------------------------------------------
(* The environment: what the data sources may hand to one loop iteration  *)

\* n bars: n-1 times bar b, then bar l
Shape(n, b, l) == [i \in 1..n |-> IF i < n THEN b ELSE l]

\* frames get_symbol_data may return: pd.DataFrame() or a frame with all columns
ShapedFrames(lens) == {EmptyDF} \cup { Frame(Shape(n, b, l)) : n \in lens, b \in Bars, l \in Bars }

Overview(sector, industry) ==
    [empty |-> FALSE, Symbol |-> TRUE, Sector |-> sector, Industry |-> industry]
Earnings(kind, age) == [empty |-> FALSE, reported |-> [kind |-> kind, age |-> age]]

NoInput == [frame |-> EmptyDF, sent |-> 0, texts |-> <<>>, ov |-> NoOverview, er |-> NoEarnings]

\* inputs of the single-symbol computations
RichInputs ==
    [ frame : ShapedFrames({1, 5, MaxBars}),
      sent : {0, 900},
      texts : {<<>>, <<0>>, <<0, 2>>},
      ov : {NoOverview, Overview("Technology", ""), Overview("Energy", ""),
            Overview("Biotechnology", ""), Overview("", "Biotech")},
      er : {NoEarnings, Earnings("bad", 0), Earnings("date", 1), Earnings("date", 30)} ]

\* inputs of the batch computations
FewInputs ==
    [ frame : {EmptyDF, Frame(Shape(1, CHOOSE b \in Bars : b.close = 1, CHOOSE b \in Bars : b.close = 1)),
               Frame(Shape(MaxBars, CHOOSE b \in Bars : b.close = 3, CHOOSE b \in Bars : b.close = 6))},
      sent : {0},
      texts : {<<>>},
      ov : {NoOverview, Overview("Biotechnology", "")},
      er : {NoEarnings} ]

----------------------------------------------------------------------------
(* src/main.py: the signal computations and their callers *)

\* AITradingAgent.symbols
\* signal computations started in one behaviour
MaxRuns == 2

\* ensure_fresh_sentiment(max_age_minutes=30)
MaxAgeMinutes == 30

NoDataset == [exists |-> FALSE, mtime |-> 0]
\* a dataset file written at time 0
FirstDataset == [exists |-> TRUE, mtime |-> 0]

\* what collect_all_data may bring: rows, an empty frame, or an exception
CollectOutcomes == {"data", "empty", "exception"}

\* collect_market_data(): the dataset file is written only for a non-empty frame
collect_market_data(ds, t, collected) ==
    IF collected = "data" THEN [exists |-> TRUE, mtime |-> t] ELSE ds

\* the condition with the age compared by >=: a dataset exactly 30 minutes old
\* counts as stale
NeedsRefresh_inclusive(ds, t) == ~ds.exists \/ t - ds.mtime >= MaxAgeMinutes * 60

\* the condition under which ensure_fresh_sentiment calls collect_market_data
NeedsRefresh(ds, t) == ~ds.exists \/ t - ds.mtime > MaxAgeMinutes * 60

\* ensure_fresh_sentiment(): the dataset file afterwards
ensure_fresh_sentiment(ds, t, collected) ==
    IF NeedsRefresh(ds, t) THEN collect_market_data(ds, t, collected) ELSE ds

\* out.to_csv of the timestamped archive and of the latest snapshot; the
\* timestamp has the resolution of one second
WriteSnapshots ==
    /\ archives' = Put(archives, now, runs)
    /\ latest' = runs

DefaultSymbols == <<"TQQQ", "SOXL", "LABU">>

\* s.strip().upper()
Normalize(s) ==
    CASE s = "aapl" -> "AAPL"
      [] s = " pltr" -> "PLTR"
      [] OTHER -> s
NormalizeAll(list) == [i \in 1..Len(list) |-> Normalize(list[i])]

\* str.lower() of a strategy name
Lower(s) ==
    CASE s = "MOMENTUM_SMALLCAP" -> "momentum_smallcap"
      [] s = "Leveraged_ETF" -> "leveraged_etf"
      [] OTHER -> s

\* request parameters: an absent parameter is <<>>, a given one <<v>>
StrategyParams == {<<>>, <<"leveraged_etf">>, <<"momentum_smallcap">>, <<"MOMENTUM_SMALLCAP">>}
\* the symbols of a request: absent, empty (an empty list or string), or a list
SymbolParams == {<<>>, << <<>> >>, << <<"aapl">> >>, << <<"AAPL", " pltr">> >>}

NoRequest == [via |-> "none", strategy |-> <<>>, symbols |-> <<>>]

\* a parameter that is falsy in Python: absent, or an empty list / string
Falsy(param) == param = <<>> \/ param[1] = <<>>

\* the call of leveraged_etf_signals(list) or momentum_smallcap_signals(list)
\* up to its loop; momentum_smallcap_signals([]) returns an empty frame at once
StartRun(strat, list, http) ==
    /\ runs < MaxRuns
    /\ runs' = runs + 1
    /\ refreshed' = NeedsRefresh(dataset, now)
    /\ \E collected \in CollectOutcomes :
        dataset' = ensure_fresh_sentiment(dataset, now, collected)
    /\ UNCHANGED <<latest, archives>>
    /\ strategy' = strat
    /\ syms' = list
    /\ rows' = <<>>
    /\ inp' = NoInput
    /\ IF strat = "momentum_smallcap" /\ list = <<>>
       THEN pc' = "done" /\ resp' = (IF http THEN 200 ELSE 0)
       ELSE pc' = "loop" /\ resp' = 0

\* a JSONResponse that runs no computation
Answer(status) ==
    /\ pc' = "answered"
    /\ resp' = status
    /\ UNCHANGED <<strategy, syms, rows, inp, dataset, refreshed, latest, archives, runs>>

Idle == pc = "idle"

\* get_signals(strategy, symbols)
GetSignals ==
    /\ Idle
    /\ \E st \in StrategyParams, sp \in SymbolParams :
        LET strat == IF st = <<>> THEN "leveraged_etf" ELSE st[1]
            list == IF Falsy(sp) THEN <<>> ELSE NormalizeAll(sp[1])
        IN  /\ req' = [via |-> "GET", strategy |-> st, symbols |-> sp]
            /\ IF strat = "momentum_smallcap"
               THEN IF list = <<>> THEN Answer(400)
                    ELSE StartRun("momentum_smallcap", list, TRUE)
               ELSE StartRun("leveraged_etf",
                             IF list = <<>> THEN DefaultSymbols ELSE list, TRUE)
    /\ UNCHANGED <<cfg, df, sentiment, texts, result, sizing, cache, now, world,
                   firstRows, secondRows,
                   args>>

\* post_signals(body)
PostSignals ==
    /\ Idle
    /\ \E st \in StrategyParams, sp \in SymbolParams :
        LET strat == Lower(IF st = <<>> THEN "leveraged_etf" ELSE st[1])
            list == NormalizeAll(IF Falsy(sp) THEN DefaultSymbols ELSE sp[1])
        IN  /\ req' = [via |-> "POST", strategy |-> st, symbols |-> sp]
            /\ StartRun(IF strat = "momentum_smallcap" THEN "momentum_smallcap"
                        ELSE "leveraged_etf", list, TRUE)
    /\ UNCHANGED <<cfg, df, sentiment, texts, result, sizing, cache, now, world,
                   firstRows, secondRows,
                   args>>

\* rescan(body)
Rescan ==
    /\ Idle
    /\ \E st \in StrategyParams, sp \in SymbolParams :
        LET strat == Lower(IF st = <<>> THEN "momentum_smallcap" ELSE st[1])
            list == NormalizeAll(IF Falsy(sp) THEN <<>> ELSE sp[1])
        IN  /\ req' = [via |-> "RESCAN", strategy |-> st, symbols |-> sp]
            /\ IF list = <<>> THEN Answer(400)
               ELSE StartRun(IF strat = "leveraged_etf" THEN "leveraged_etf"
                             ELSE "momentum_smallcap", list, TRUE)
    /\ UNCHANGED <<cfg, df, sentiment, texts, result, sizing, cache, now, world,
                   firstRows, secondRows,
                   args>>

\* --mode signals with one symbol: the strategy's function on [sym]
CliSignals ==
    /\ Idle
    /\ \E strat \in {"leveraged_etf", "momentum_smallcap"}, sym \in {"AAPL"} :
        /\ req' = [via |-> "CLI", strategy |-> <<strat>>, symbols |-> << <<sym>> >>]
        /\ StartRun(strat, <<sym>>, FALSE)
    /\ UNCHANGED <<cfg, df, sentiment, texts, result, sizing, cache, now, world,
                   firstRows, secondRows,
                   args>>

\* one iteration of the loop, on inputs from S; an exception leaves the loop
\* and the function: the HTTP handlers answer it with status 500
ProcessSymbolFrom(S) ==
    /\ pc = "loop"
    /\ Len(rows) < Len(syms)
    /\ \E in \in S :
        LET r == SymbolRow(cfg, strategy, syms[Len(rows) + 1], in)
        IN  /\ inp' = in
            /\ IF r.raised
               THEN /\ pc' = "raised"
                    /\ resp' = (IF req.via = "CLI" THEN 0 ELSE 500)
                    /\ rows' = rows
               ELSE /\ rows' = Append(rows, r.row)
                    /\ UNCHANGED <<pc, resp>>
    /\ UNCHANGED <<cfg, req, strategy, syms, df, sentiment, texts, result, sizing,
                   cache, now, world, firstRows, secondRows,
                   args, dataset, refreshed, latest, archives, runs>>

ProcessSymbol == ProcessSymbolFrom(FewInputs)
ProcessSymbolRich == ProcessSymbolFrom(RichInputs)

\* the end of the loop: the frame of rows is built and returned
FinishRun ==
    /\ pc = "loop"
    /\ Len(rows) = Len(syms)
    /\ pc' = "done"
    /\ WriteSnapshots
    /\ UNCHANGED <<dataset, refreshed, runs>>
    /\ resp' = (IF req.via = "CLI" THEN 0 ELSE 200)
    /\ UNCHANGED <<cfg, req, strategy, syms, rows, inp, df, sentiment, texts, result,
                   sizing, cache, now, world, firstRows, secondRows,
                   args>>

\* the caller is served; the next request may come
NextRequest ==
    /\ pc \in {"done", "raised", "answered"}
    /\ pc' = "idle"
    /\ req' = NoRequest
    /\ strategy' = ""
    /\ syms' = <<>>
    /\ rows' = <<>>
    /\ inp' = NoInput
    /\ resp' = 0
    /\ refreshed' = FALSE
    /\ UNCHANGED <<dataset, latest, archives, runs>>
    /\ UNCHANGED <<cfg, df, sentiment, texts, result, sizing, cache, now, world,
                   firstRows, secondRows,
                   args>>

\* no call of a scorer or sizing helper is under way
NoResult == [fn |-> "none", value |-> <<>>, raised |-> FALSE]
NoSizing == [atr |-> 0, equity |-> 0]

\* the variables of the other harnesses, at rest
Rest ==
    /\ df = EmptyDF
    /\ sentiment = 0
    /\ texts = <<>>
    /\ result = NoResult
    /\ sizing = NoSizing
    /\ cache = <<>>
    /\ now = 0
    /\ world = <<>>
    /\ firstRows = <<>>
    /\ secondRows = <<>>
    /\ args = <<>>
    /\ dataset = FirstDataset
    /\ refreshed = FALSE
    /\ latest = 0
    /\ archives = <<>>
    /\ runs = 0

InitRun(configs) ==
    /\ cfg \in configs
    /\ pc = "idle"
    /\ req = NoRequest
    /\ strategy = ""
    /\ syms = <<>>
    /\ rows = <<>>
    /\ inp = NoInput
    /\ resp = 0

\* the HTTP service: batches of symbols
Init == InitRun({BaseConfig, [BaseConfig EXCEPT !.atr_k = 0]}) /\ Rest
Next == GetSignals \/ PostSignals \/ Rescan \/ ProcessSymbol \/ FinishRun \/ NextRequest
Spec == Init /\ [][Next]_vars

\* the command line: single symbols, every configuration and input
InitRow == InitRun(Configs) /\ Rest
NextRow == CliSignals \/ ProcessSymbolRich \/ FinishRun \/ NextRequest
SpecRow == InitRow /\ [][NextRow]_vars

----------------------------------------------------------------------------
(* Two invocations of the same strategy on the same symbols with upstream  *)
(* data and the clock frozen, after earlier activity has left the          *)
(* fundamentals cache in some state.                                       *)

\* clock steps of the earlier activity
MaxTicks == 1

FrozenSymbol == "AAPL"
FrozenBatches == {<<FrozenSymbol>>, <<FrozenSymbol, FrozenSymbol>>}

\* what the OVERVIEW endpoint may answer; the dict without Symbol is the
\* rate-limit note
OverviewResponses ==
    { [kind |-> "ok", data |-> Overview("Technology", "")],
      [kind |-> "ok", data |-> Overview("Biotechnology", "")],
      [kind |-> "ok", data |-> [Overview("", "") EXCEPT !.Symbol = FALSE]],
      [kind |-> "status", data |-> NoOverview],
      [kind |-> "exception", data |-> NoOverview] }

\* what the EARNINGS endpoint may answer
EarningsResponses ==
    { [kind |-> "ok", data |-> Earnings("date", 1)],
      [kind |-> "ok", data |-> NoEarnings],
      [kind |-> "status", data |-> NoEarnings] }

\* the frozen inputs: ALPHA_VANTAGE_API_KEY set or not, and per symbol the
\* price frame, the text dataset and the upstream answers
Worlds ==
    [ api_key : BOOLEAN,
      frame : {Frame(Shape(MaxBars, CHOOSE b \in Bars : b.close = 3,
                                    CHOOSE b \in Bars : b.close = 6))},
      sent : {0},
      texts : {<<>>},
      ov : OverviewResponses,
      er : EarningsResponses ]

\* earlier activity: a fetch of either kind, answered as upstream did then
WarmFetch ==
    /\ Idle
    /\ firstRows = <<>>
    /\ \/ \E u \in OverviewResponses :
            cache' = fetch_overview(cache, now, world.api_key, FrozenSymbol, u).cache
       \/ \E u \in EarningsResponses :
            cache' = fetch_earnings(cache, now, world.api_key, FrozenSymbol, u).cache
    /\ UNCHANGED <<cfg, pc, req, strategy, syms, rows, inp, resp, df, sentiment,
                   texts, result, sizing, now, world, firstRows, secondRows,
                   args, dataset, refreshed, latest, archives, runs>>

\* earlier activity: time passes, a second or a whole TTL
Tick ==
    /\ Idle
    /\ firstRows = <<>>
    /\ \E dt \in {1, _TTL_SECONDS} :
        /\ (now + dt) \div _TTL_SECONDS <= MaxTicks
        /\ (now + dt) % _TTL_SECONDS <= MaxTicks
        /\ now' = now + dt
    /\ UNCHANGED <<cfg, pc, req, strategy, syms, rows, inp, resp, df, sentiment,
                   texts, result, sizing, cache, world, firstRows, secondRows,
                   args, dataset, refreshed, latest, archives, runs>>

\* the first invocation
Invoke ==
    /\ Idle
    /\ firstRows = <<>>
    /\ \E strat \in {"leveraged_etf", "momentum_smallcap"}, list \in FrozenBatches :
        /\ req' = [via |-> "CLI", strategy |-> <<strat>>, symbols |-> <<list>>]
        /\ StartRun(strat, list, FALSE)
    /\ UNCHANGED <<cfg, df, sentiment, texts, result, sizing, cache, now, world,
                   firstRows, secondRows,
                   args>>

\* one loop iteration on the frozen inputs; momentum_smallcap reads the
\* fundamentals through the cache
ProcessSymbolFrozen ==
    /\ pc = "loop"
    /\ Len(rows) < Len(syms)
    /\ LET sym == syms[Len(rows) + 1]
           fo == fetch_overview(cache, now, world.api_key, sym, world.ov)
           fe == fetch_earnings(fo.cache, now, world.api_key, sym, world.er)
           in == [frame |-> world.frame, sent |-> world.sent, texts |-> world.texts,
                  ov |-> IF strategy = "momentum_smallcap" THEN fo.data ELSE NoOverview,
                  er |-> IF strategy = "momentum_smallcap" THEN fe.data ELSE NoEarnings]
           r == SymbolRow(cfg, strategy, sym, in)
       IN  /\ inp' = in
           /\ cache' = IF strategy = "momentum_smallcap" THEN fe.cache ELSE cache
           /\ IF r.raised
              THEN pc' = "raised" /\ rows' = rows
              ELSE pc' = pc /\ rows' = Append(rows, r.row)
    /\ UNCHANGED <<cfg, req, strategy, syms, resp, df, sentiment, texts, result,
                   sizing, now, world, firstRows, secondRows,
                   args, dataset, refreshed, latest, archives, runs>>

\* the invocation returns its frame of rows, or the exception leaves it
ReturnRows ==
    /\ \/ pc = "loop" /\ Len(rows) = Len(syms)
       \/ pc = "raised"
    /\ LET outcome == [raised |-> pc = "raised", rows |-> rows]
       IN  IF firstRows = <<>>
           THEN firstRows' = outcome /\ secondRows' = secondRows /\ pc' = "between"
           ELSE secondRows' = outcome /\ firstRows' = firstRows /\ pc' = "compared"
    /\ IF pc = "raised" THEN UNCHANGED <<latest, archives>> ELSE WriteSnapshots
    /\ UNCHANGED <<dataset, refreshed, runs>>
    /\ UNCHANGED <<cfg, req, strategy, syms, rows, inp, resp, df, sentiment, texts,
                   result, sizing, cache, now, world,
                   args>>

\* the second invocation: same strategy, same symbols
InvokeAgain ==
    /\ pc = "between"
    /\ StartRun(strategy, syms, FALSE)
    /\ UNCHANGED <<cfg, req, df, sentiment, texts, result, sizing, cache, now, world,
                   firstRows, secondRows,
                   args>>

InitFrozen ==
    /\ InitRun({BaseConfig})
    /\ df = EmptyDF
    /\ sentiment = 0
    /\ texts = <<>>
    /\ result = NoResult
    /\ sizing = NoSizing
    /\ cache = <<>>
    /\ now = 0
    /\ world \in Worlds
    /\ firstRows = <<>>
    /\ secondRows = <<>>
    /\ args = <<>>
    /\ dataset \in {NoDataset, FirstDataset}
    /\ refreshed = FALSE
    /\ latest = 0
    /\ archives = <<>>
    /\ runs = 0
NextFrozen == WarmFetch \/ Tick \/ Invoke \/ ProcessSymbolFrozen \/ ReturnRows \/ InvokeAgain
SpecFrozen == InitFrozen /\ [][NextFrozen]_vars

----------------------------------------------------------------------------
(* Signal runs from the command line while the clock advances: the dataset *)
(* file ages, and the snapshot files are written at the clock's second.    *)

\* time passes: a second, or the maximum age of the dataset
Advance ==
    /\ \E dt \in {1, MaxAgeMinutes * 60} :
        /\ (now + dt) \div (MaxAgeMinutes * 60) <= MaxTicks
        /\ (now + dt) % (MaxAgeMinutes * 60) <= MaxTicks
        /\ now' = now + dt
    /\ UNCHANGED <<cfg, pc, req, strategy, syms, rows, inp, resp, df, sentiment,
                   texts, result, sizing, cache, world, firstRows, secondRows,
                   args, dataset, refreshed, latest, archives, runs>>

\* --mode signals without --symbols: momentum_smallcap_signals([]) or
\* leveraged_etf_signals(agent.symbols)
CliSignalsDefault ==
    /\ Idle
    /\ \E strat \in {"leveraged_etf", "momentum_smallcap"} :
        /\ req' = [via |-> "CLI", strategy |-> <<strat>>, symbols |-> << <<>> >>]
        /\ StartRun(strat, IF strat = "momentum_smallcap" THEN <<>> ELSE DefaultSymbols,
                    FALSE)
    /\ UNCHANGED <<cfg, df, sentiment, texts, result, sizing, cache, now, world,
                   firstRows, secondRows, args>>

\* one loop iteration on a symbol without data or with a rising frame
ProcessSymbolPlain ==
    ProcessSymbolFrom({NoInput,
                       [NoInput EXCEPT !.frame =
                            Frame(Shape(MaxBars, CHOOSE b \in Bars : b.close = 3,
                                                 CHOOSE b \in Bars : b.close = 6))]})

InitFiles ==
    /\ InitRun({BaseConfig})
    /\ df = EmptyDF
    /\ sentiment = 0
    /\ texts = <<>>
    /\ result = NoResult
    /\ sizing = NoSizing
    /\ cache = <<>>
    /\ now = 0
    /\ world = <<>>
    /\ firstRows = <<>>
    /\ secondRows = <<>>
    /\ args = <<>>
    /\ dataset \in {NoDataset, FirstDataset}
    /\ refreshed = FALSE
    /\ latest = 0
    /\ archives = <<>>
    /\ runs = 0
NextFiles ==
    Advance \/ CliSignals \/ CliSignalsDefault \/ ProcessSymbolPlain \/ FinishRun
        \/ NextRequest
SpecFiles == InitFiles /\ [][NextFiles]_vars

----------------------------------------------------------------------------
(* Direct calls of the scorers and of the sizing helpers, on frames built  *)
(* bar by bar.                                                             *)

\* column sets of the frames handed to the scorers
ColumnSets == {AllCols, AllCols \ {"close"}, AllCols \ {"volume"}, {}}

\* bars of the frames built here
CallBars == {b \in Bars : b.close <= 3}

Calling == result.fn # "none"

\* the caller's frame gets one more bar
AppendBar ==
    /\ ~Calling
    /\ ~df.none
    /\ df.cols # {}
    /\ Len(df.rows) < MaxBars
    /\ \E b \in CallBars : df' = [df EXCEPT !.rows = Append(@, b)]
    /\ UNCHANGED <<cfg, pc, req, strategy, syms, rows, inp, resp, sentiment, texts,
                   result, sizing, cache, now, world, firstRows, secondRows,
                   args, dataset, refreshed, latest, archives, runs>>

\* score_leveraged_etf(df)
CallScoreEtf ==
    /\ ~Calling
    /\ result' = [fn |-> "score_leveraged_etf", value |-> score_leveraged_etf(df),
                  raised |-> FALSE]
    /\ UNCHANGED <<cfg, pc, req, strategy, syms, rows, inp, resp, df, sentiment, texts,
                   sizing, cache, now, world, firstRows, secondRows,
                   args, dataset, refreshed, latest, archives, runs>>

\* score_smallcap_momentum(df, sentiment, texts)
CallScoreSmallcap ==
    /\ ~Calling
    /\ \E sent \in {-2000, 0, 700}, ts \in {<<>>, <<0>>, <<1, 3>>} :
        /\ sentiment' = sent
        /\ texts' = ts
        /\ result' = [fn |-> "score_smallcap_momentum",
                      value |-> score_smallcap_momentum(df, sent, ts), raised |-> FALSE]
    /\ UNCHANGED <<cfg, pc, req, strategy, syms, rows, inp, resp, df,
                   sizing, cache, now, world, firstRows, secondRows,
                   args, dataset, refreshed, latest, archives, runs>>

\* _position_size(account_equity, atr) on the ATR of the frame, or on a given one
CallPositionSize ==
    /\ ~Calling
    /\ \E eq \in {0, 10000}, a \in {-100, 25} \cup (IF df.none THEN {} ELSE {_atr(df)}) :
        LET r == _position_size(cfg, eq, a)
        IN  /\ sizing' = [atr |-> a, equity |-> eq]
            /\ result' = [fn |-> "_position_size", value |-> <<r.size>>, raised |-> r.raised]
    /\ UNCHANGED <<cfg, pc, req, strategy, syms, rows, inp, resp, df, sentiment, texts,
                   cache, now, world, firstRows, secondRows,
                   args, dataset, refreshed, latest, archives, runs>>

\* the call returns to the caller
Return ==
    /\ Calling
    /\ result' = NoResult
    /\ sentiment' = 0
    /\ texts' = <<>>
    /\ sizing' = NoSizing
    /\ UNCHANGED <<cfg, pc, req, strategy, syms, rows, inp, resp, df,
                   cache, now, world, firstRows, secondRows,
                   args, dataset, refreshed, latest, archives, runs>>

InitFn ==
    /\ InitRun({ [BaseConfig EXCEPT !.atr_k = k, !.max_risk_pct_per_trade = r] :
                    k \in {15, 0}, r \in {<<>>, <<100>>} })
    /\ df \in {NoneDF} \cup { [none |-> FALSE, cols |-> cs, rows |-> <<>>] : cs \in ColumnSets }
    /\ sentiment = 0
    /\ texts = <<>>
    /\ result = NoResult
    /\ sizing = NoSizing
    /\ cache = <<>>
    /\ now = 0
    /\ world = <<>>
    /\ firstRows = <<>>
    /\ secondRows = <<>>
    /\ args = <<>>
    /\ dataset = FirstDataset
    /\ refreshed = FALSE
    /\ latest = 0
    /\ archives = <<>>
    /\ runs = 0
NextFn == AppendBar \/ CallScoreEtf \/ CallScoreSmallcap \/ CallPositionSize \/ Return
SpecFn == InitFn /\ [][NextFn]_vars

----------------------------------------------------------------------------
(* Direct calls of the combiner and of the leaf signal functions, each on  *)
(* arguments of its own.                                                   *)

\* the variables the leaf calls leave alone
LeafFrame ==
    UNCHANGED <<cfg, pc, req, strategy, syms, rows, inp, resp, df, sentiment, texts,
                sizing, cache, now, world, firstRows, secondRows, dataset, refreshed,
                latest, archives, runs>>

\* scores handed to the combiner and to the trading decision
LeafScores == {-Unit, -500, 0, 400, 500, Unit}
\* a signal frame with the strength column the combiner reads, or without it
SignalFrames(col) ==
    {NoSignals} \cup { [empty |-> FALSE, cols |-> {c}, strength |-> x] :
                        c \in {col, "timestamp"}, x \in LeafScores }

\* tracking differences handed to generate_premium_signal, in thousandths of
\* a percentage point: each threshold, its two neighbours, and values beyond
PremiumDiscounts ==
    {-900, -501, -500, -499, -201, -200, -199, 0, 199, 200, 201, 499, 500, 501, 900}

\* generate_premium_signal with the neutral band closed and the upper
\* moderate band closed at 0.5
generate_premium_signal_closed_band(premium_discount_pct) ==
    IF IsNaN(premium_discount_pct) THEN 0
    ELSE LET d == Val(premium_discount_pct)
         IN  IF d <= -500 THEN 2
             ELSE IF d < -200 THEN 1
             ELSE IF d > 500 THEN -2
             ELSE IF d > 200 THEN -1
             ELSE 0

\* generate_premium_signal(premium_discount_pct, etf_symbol); every comparison
\* with NaN is false, which leaves the else branch
generate_premium_signal(premium_discount_pct) ==
    IF IsNaN(premium_discount_pct) THEN 0
    ELSE LET d == Val(premium_discount_pct)
         IN  IF d <= -500 THEN 2
             ELSE IF d <= -200 THEN 1
             ELSE IF d >= 500 THEN -2
             ELSE IF d >= 200 THEN -1
             ELSE 0

\* the pairs monitored by get_etf_premium_discount, in the order of the dict
EtfPairs == <<"TQQQ", "SOXL", "LABU">>

\* a tracking difference (thousandths of a point) that yields the signal
PremiumOf(signal) ==
    CASE signal = 2 -> -900
      [] signal = 1 -> -499
      [] signal = -1 -> 499
      [] signal = -2 -> 900
      [] OTHER -> 0

\* what calculate_premium_discount returns for one pair: an OK record with the
\* signal of its tracking difference, or one of the three neutral records; a
\* caller may also hand in a record that is not OK and carries a signal
PremiumRecords ==
    { [status |-> "OK", signal |-> generate_premium_signal(Num(PremiumOf(g))),
       premium_discount |-> PremiumOf(g)] : g \in -2..2 }
    \cup { [status |-> st, signal |-> g, premium_discount |-> PremiumOf(g)] :
             st \in {"NO_DATA", "INSUFFICIENT_DATA", "ERROR"}, g \in {0, 2} }

\* the results dict as its items: one record per pair, and possibly the
\* 'overall' entry of an earlier analysis
ResultDicts ==
    { [i \in 1..3 |-> [key |-> EtfPairs[i], v |-> f[i]]] \o extra :
        f \in [1..3 -> PremiumRecords],
        extra \in {<<>>, << [key |-> "overall",
                             v |-> [status |-> "OK", signal |-> 2,
                                    premium_discount |-> 0]] >>} }

\* k != 'overall' and v.get('status') == 'OK'
IsValidResult(item) == item.key # "overall" /\ item.v.status = "OK"
NotOverall(item) == item.key # "overall"

\* the analysis of the selected items: signal in hundredths (round(avg, 2)),
\* avg_premium_discount in thousandths (round(avg, 3)); the recommendation is
\* taken from the unrounded mean
Overall(valid) ==
    IF valid = <<>>
    THEN [signal |-> 0, avg_premium_discount |-> 0, recommendation |-> "HOLD",
          status |-> "NO_DATA"]
    ELSE LET n == Len(valid)
             total == SumSeq([i \in 1..n |-> valid[i].v.signal])
             premiums == SumSeq([i \in 1..n |-> valid[i].v.premium_discount])
         IN  [ signal |-> RoundDiv(100 * total, n),
               avg_premium_discount |-> RoundDiv(premiums, n),
               recommendation |->
                   IF 2 * total >= 3 * n THEN "STRONG_BUY"
                   ELSE IF 2 * total >= n THEN "BUY"
                   ELSE IF 2 * total <= -3 * n THEN "STRONG_SELL"
                   ELSE IF 2 * total <= -n THEN "SELL"
                   ELSE "HOLD",
               status |-> "OK" ]

\* analyze_overall_premium_discount averaging every pair, OK or not
analyze_overall_premium_discount_any_status(results) ==
    Overall(SelectSeq(results, NotOverall))

\* analyze_overall_premium_discount(results)
analyze_overall_premium_discount(results) ==
    Overall(SelectSeq(results, IsValidResult))

\* analyze_overall_premium_discount(results)
CallOverallPremium ==
    /\ ~Calling
    /\ \E results \in ResultDicts :
        /\ args' = [results |-> results]
        /\ result' = [fn |-> "analyze_overall_premium_discount",
                      value |-> analyze_overall_premium_discount(results),
                      raised |-> FALSE]
    /\ LeafFrame

\* generate_premium_signal(premium_discount_pct, etf_symbol)
CallPremiumSignal ==
    /\ ~Calling
    /\ \E d \in {NaN} \cup {Num(x) : x \in PremiumDiscounts} :
        /\ args' = [premium_discount_pct |-> d]
        /\ result' = [fn |-> "generate_premium_signal",
                      value |-> generate_premium_signal(d),
                      raised |-> FALSE]
    /\ LeafFrame

\* what yf.download hands back: an exception, or a frame of closing prices
\* (the empty sequence is the empty frame)
Raises == [raises |-> TRUE, close |-> <<>>]
Downloaded(close) == [raises |-> FALSE, close |-> close]

\* closes of the volatility index around the thresholds 15 and 25
VixDownloads ==
    {Raises, Downloaded(<<>>)}
        \cup {Downloaded(<<Num(20), c>>) : c \in {NaN, Num(14), Num(15), Num(24), Num(25), Num(40)}}
\* closes of the broad index: too few rows, and five or six rows whose last
\* close is within, on and beyond 2 % of the fifth last
QqqDownloads ==
    {Raises, Downloaded(<<>>), Downloaded(<<Num(100), Num(100), Num(100), Num(110)>>)}
        \cup {Downloaded(<<Num(100), Num(90), Num(90), Num(90), c>>) :
                    c \in {NaN, Num(97), Num(98), Num(99), Num(101), Num(102), Num(103)}}
        \cup {Downloaded(<<Num(50), Num(100), Num(90), Num(90), Num(90), c>>) :
                    c \in {Num(98), Num(100), Num(102)}}

\* iloc[-k] of a column
ILoc(col, k) == col[Len(col) - k + 1]

\* float(last / first - 1) > 0.02 on closes that are whole numbers: the
\* quotient of an exact 2 % rise rounds to the double next to 1.02, which
\* is 1.02 + 1.8e-17, the subtraction of 1 is exact, and the double 0.02 is
\* 0.02 + 4e-19, so that the exact rise of 2 % tests as above 0.02
ReturnAbove2Pct(last, first) == 100 * last >= 102 * first
\* float(last / first - 1) > -0.02: the quotient of an exact 2 % fall rounds
\* to 0.98 - 1.8e-17, so that the exact fall of 2 % tests as not above -0.02
ReturnAboveMinus2Pct(last, first) == 100 * last > 98 * first

NeutralMacro == [vix_signal |-> 0, momentum_signal |-> 0, combined_score |-> 0, vix_level |-> Num(0)]

\* lines 23-34: the volatility part; comparisons with NaN are false
VixSignal(vix_data) ==
    IF vix_data.close = <<>> THEN 0
    ELSE LET current_vix == ILoc(vix_data.close, 1)
         IN  IF ~IsNaN(current_vix) /\ Val(current_vix) < 15 THEN Unit
             ELSE IF ~IsNaN(current_vix) /\ Val(current_vix) < 25 THEN 0
             ELSE -Unit

\* lines 37-48: the momentum part
MomentumSignal(qqq_data) ==
    IF qqq_data.close = <<>> \/ Len(qqq_data.close) < 5 THEN 0
    ELSE LET last == ILoc(qqq_data.close, 1)
             first == ILoc(qqq_data.close, 5)
             defined == ~IsNaN(last) /\ ~IsNaN(first)
         IN  IF defined /\ ReturnAbove2Pct(Val(last), Val(first)) THEN Unit
             ELSE IF defined /\ ReturnAboveMinus2Pct(Val(last), Val(first)) THEN 0
             ELSE -Unit

\* get_macro_signal answering neutral as soon as one download is empty
get_macro_signal_all_or_nothing(vix_data, qqq_data) ==
    IF vix_data.raises \/ qqq_data.raises \/ vix_data.close = <<>> \/ qqq_data.close = <<>>
    THEN NeutralMacro
    ELSE [vix_signal |-> VixSignal(vix_data),
          momentum_signal |-> MomentumSignal(qqq_data),
          combined_score |-> (600 * VixSignal(vix_data) + 400 * MomentumSignal(qqq_data)) \div Unit,
          vix_level |-> ILoc(vix_data.close, 1)]

\* get_macro_signal() on what the two downloads hand back
get_macro_signal(vix_data, qqq_data) ==
    IF vix_data.raises \/ qqq_data.raises THEN NeutralMacro
    ELSE LET vix_signal == VixSignal(vix_data)
             momentum_signal == MomentumSignal(qqq_data)
         IN  [vix_signal |-> vix_signal,
              momentum_signal |-> momentum_signal,
              combined_score |-> (600 * vix_signal + 400 * momentum_signal) \div Unit,
              vix_level |-> IF vix_data.close = <<>> THEN Num(0)
                            ELSE ILoc(vix_data.close, 1)]

\* get_macro_signal()
CallMacroSignal ==
    /\ ~Calling
    /\ \E vix_data \in VixDownloads, qqq_data \in QqqDownloads :
        /\ args' = [vix_data |-> vix_data, qqq_data |-> qqq_data]
        /\ result' = [fn |-> "get_macro_signal",
                      value |-> get_macro_signal(vix_data, qqq_data),
                      raised |-> FALSE]
    /\ LeafFrame

\* lists of texts, each text given by the number of patterns that match it
MaxTexts == 4
TextLists == UNION { [1..n -> {0, 1, 3}] : n \in 0..MaxTexts }

\* catalyst_score(texts)
CallCatalystScore ==
    /\ ~Calling
    /\ \E ts \in TextLists :
        /\ args' = [texts |-> ts]
        /\ result' = [fn |-> "catalyst_score", value |-> catalyst_score(ts),
                      raised |-> FALSE]
    /\ LeafFrame

\* price frames with the columns symbol, timestamp and volume, as sequences
\* of rows in the order of the frame
MaxRows == 4
SpikeSymbols == <<"LABU", "SOXL">>
SpikeVolumes == {100, 200, 500}
\* the frames of test_volume_spikes and test_volume_spikes_no_spikes
TestSpikeFrame ==
    [i \in 1..5 |-> [symbol |-> "TEST", timestamp |-> i,
                     volume |-> <<100, 120, 110, 500, 130>>[i]]]
TestFlatFrame ==
    [i \in 1..3 |-> [symbol |-> "TEST", timestamp |-> i, volume |-> <<100, 105, 95>>[i]]]
\* rows in rising or in falling order of their timestamps
PriceFrames ==
    {TestSpikeFrame, TestFlatFrame} \cup
    UNION { { [i \in 1..n |-> [symbol |-> SpikeSymbols[f[i][1]],
                               timestamp |-> IF rising THEN i ELSE n + 1 - i,
                               volume |-> f[i][2]]] :
                f \in [1..n -> (DOMAIN SpikeSymbols) \X SpikeVolumes], rising \in BOOLEAN } :
            n \in 1..MaxRows }

\* the order of sort_values(['symbol', 'timestamp'])
RowBefore(a, b) ==
    IF a.symbol = b.symbol THEN a.timestamp <= b.timestamp
    ELSE a.symbol = "LABU" \/ b.symbol = "TEST"
RECURSIVE InsertRow(_, _)
InsertRow(x, rs) ==
    IF rs = <<>> THEN <<x>>
    ELSE IF RowBefore(x, rs[1]) THEN <<x>> \o rs ELSE <<rs[1]>> \o InsertRow(x, Tail(rs))
RECURSIVE SortRows(_)
SortRows(rs) == IF rs = <<>> THEN <<>> ELSE InsertRow(rs[1], SortRows(Tail(rs)))

VolumesOf(rs) == [i \in 1..Len(rs) |-> rs[i].volume]

\* compute(group) for row i of the sorted frame; upto are the rows the
\* rolling median runs over, row i the last of them; threshold2 is twice the
\* threshold
ComputeRow(sorted, i, window, threshold2, upto) ==
    LET rolling_med2 == Median2(Window(VolumesOf(upto), window))
    IN  [symbol |-> sorted[i].symbol, timestamp |-> sorted[i].timestamp,
         volume |-> sorted[i].volume, rolling_med2 |-> rolling_med2,
         spike |-> 4 * sorted[i].volume > threshold2 * rolling_med2]

\* the rows of the group of row i, up to row i
GroupUpTo(sorted, i) ==
    SelectSeq(SubSeq(sorted, 1, i), LAMBDA r : r.symbol = sorted[i].symbol)
\* all rows up to row i, whatever their symbol
FrameUpTo(sorted, i) == SubSeq(sorted, 1, i)

\* detect_volume_spikes with one rolling median over the whole frame
detect_volume_spikes_ungrouped(price_df, window, threshold2) ==
    LET sorted == SortRows(price_df)
        out == [i \in 1..Len(sorted) |-> ComputeRow(sorted, i, window, threshold2,
                                                  FrameUpTo(sorted, i))]
    IN  SelectSeq(out, LAMBDA r : r.spike)

\* detect_volume_spikes(price_df, window, threshold) on a non-empty frame of
\* defined volumes: the rows of out[out['spike']]
detect_volume_spikes_rows(price_df, window, threshold2) ==
    LET sorted == SortRows(price_df)
        out == [i \in 1..Len(sorted) |-> ComputeRow(sorted, i, window, threshold2,
                                                  GroupUpTo(sorted, i))]
    IN  SelectSeq(out, LAMBDA r : r.spike)

\* detect_volume_spikes(price_df, window, threshold)
CallVolumeSpikes ==
    /\ ~Calling
    /\ \E price_df \in PriceFrames, window \in {2, 3}, threshold2 \in {3, 4} :
        /\ args' = [price_df |-> price_df, window |-> window, threshold2 |-> threshold2]
        /\ result' = [fn |-> "detect_volume_spikes",
                      value |-> detect_volume_spikes_rows(price_df, window, threshold2),
                      raised |-> FALSE]
    /\ LeafFrame

\* closing prices 5 % and 20 % apart, and the frames of up to MaxBars bars
\* made of them, with every column
EtfCloses == {20, 21, 24}
EtfFrames ==
    UNION { { Frame([i \in 1..n |-> [high |-> cl[i], low |-> cl[i], close |-> cl[i],
                                      volume |-> 1]]) : cl \in [1..n -> EtfCloses] } :
            n \in 1..MaxBars }

\* the body of the loop of leveraged_etf_signals on the frame of one symbol
CallEtfRow ==
    /\ ~Calling
    /\ \E frame \in EtfFrames :
        /\ args' = [frame |-> frame]
        /\ result' = [fn |-> "leveraged_etf_signals",
                      value |-> EtfRow("TQQQ", [NoInput EXCEPT !.frame = frame]),
                      raised |-> FALSE]
    /\ LeafFrame

\* configurations and inputs of the rows whose trade plan is looked at
PlanConfigs ==
    { [BaseConfig EXCEPT !.stop_loss_pct = sl, !.take_profit_pct = tp,
                         !.price_min = pm, !.sector_exclude = sx] :
        sl \in {8, 30}, tp \in {5, 20}, pm \in {<<>>, <<2>>}, sx \in {{}, {"Energy"}} }
PlanInputs ==
    [ frame : ShapedFrames({1, 5, MaxBars}),
      sent : {0},
      texts : {<<>>},
      ov : {NoOverview, Overview("Energy", "")},
      er : {NoEarnings, Earnings("date", 1)} ]

\* the body of the loop of momentum_smallcap_signals on the inputs of one symbol
CallMomentumRow ==
    /\ ~Calling
    /\ \E c \in PlanConfigs, in \in PlanInputs :
        LET r == MomentumRow(c, "AAPL", in)
        IN  /\ args' = [config |-> c, in |-> in]
            /\ result' = [fn |-> "momentum_smallcap_signals", value |-> r.row,
                          raised |-> r.raised]
    /\ LeafFrame

\* calculate_combined_signal_score(base_signal, ta_df, vol_df, sent)
CallCombiner ==
    /\ ~Calling
    /\ \E base \in {NaN} \cup {Num(x) : x \in LeafScores},
          ta \in SignalFrames("signal_strength"),
          vol \in SignalFrames("volume_strength"),
          sent \in {-Unit, 0, Unit} :
        /\ args' = [base |-> base, ta_df |-> ta, vol_df |-> vol, sent |-> sent]
        /\ result' = [fn |-> "calculate_combined_signal_score",
                      value |-> calculate_combined_signal_score(base, ta, vol, sent),
                      raised |-> FALSE]
    /\ LeafFrame

\* SignalEngine.generate_trading_decision(signal_data, final_score)
CallTradingDecision ==
    /\ ~Calling
    /\ \E x \in -20..20, d \in {-1, 0, 1} :
        /\ args' = [final_score |-> 50 * x + d]
        /\ result' = [fn |-> "generate_trading_decision",
                      value |-> generate_trading_decision(50 * x + d),
                      raised |-> FALSE]
    /\ LeafFrame

\* the leaf call returns to the caller
ReturnLeaf ==
    /\ Calling
    /\ result' = NoResult
    /\ args' = <<>>
    /\ LeafFrame

InitLeaf ==
    /\ InitRun({BaseConfig})
    /\ Rest
NextLeaf ==
    \/ CallCombiner
    \/ CallTradingDecision
    \/ CallPremiumSignal
    \/ CallMacroSignal
    \/ CallCatalystScore
    \/ CallVolumeSpikes
    \/ CallEtfRow
    \/ CallMomentumRow
    \/ CallOverallPremium
    \/ ReturnLeaf
SpecLeaf == InitLeaf /\ [][NextLeaf]_vars

----------------------------------------------------------------------------
(* src/data/fundamentals.py called directly: fetches of the two query     *)
(* types against the module-level _cache, with the clock moving between   *)
(* the calls.  args keeps the call and the cache as it was before it.     *)

CacheSymbols == {"AAPL", "PLTR"}

\* what the HTTP client may do on a fetch: a 200 answer with a body, another
\* status, or an exception
FetchResponses(kind) ==
    IF kind = "overview" THEN OverviewResponses
    ELSE EarningsResponses \cup {[kind |-> "exception", data |-> NoEarnings]}

\* time.time() moves on between two calls
CacheTick ==
    /\ ~Calling
    /\ \E dt \in {1, _TTL_SECONDS} :
        /\ (now + dt) \div _TTL_SECONDS <= MaxTicks
        /\ (now + dt) % _TTL_SECONDS <= MaxTicks
        /\ now' = now + dt
    /\ UNCHANGED <<cfg, pc, req, strategy, syms, rows, inp, resp, df, sentiment,
                   texts, result, sizing, cache, world, firstRows, secondRows,
                   args, dataset, refreshed, latest, archives, runs>>

FetchFrame ==
    UNCHANGED <<cfg, pc, req, strategy, syms, rows, inp, resp, df, sentiment, texts,
                sizing, now, world, firstRows, secondRows, dataset, refreshed,
                latest, archives, runs>>

\* fetch_overview(symbol)
CallFetchOverview ==
    /\ ~Calling
    /\ \E symbol \in CacheSymbols, upstream \in FetchResponses("overview") :
        LET r == fetch_overview(cache, now, world.api_key, symbol, upstream)
        IN  /\ args' = [kind |-> "overview", symbol |-> symbol, upstream |-> upstream,
                        before |-> cache, t |-> now]
            /\ result' = [fn |-> "fetch_overview",
                          value |-> [data |-> r.data, asked |-> r.asked],
                          raised |-> FALSE]
            /\ cache' = r.cache
    /\ FetchFrame

\* fetch_earnings(symbol)
CallFetchEarnings ==
    /\ ~Calling
    /\ \E symbol \in CacheSymbols, upstream \in FetchResponses("earnings") :
        LET r == fetch_earnings(cache, now, world.api_key, symbol, upstream)
        IN  /\ args' = [kind |-> "earnings", symbol |-> symbol, upstream |-> upstream,
                        before |-> cache, t |-> now]
            /\ result' = [fn |-> "fetch_earnings",
                          value |-> [data |-> r.data, asked |-> r.asked],
                          raised |-> FALSE]
            /\ cache' = r.cache
    /\ FetchFrame

\* the fetch has returned to its caller
ReturnFetch ==
    /\ Calling
    /\ result' = NoResult
    /\ args' = <<>>
    /\ LeafFrame

InitCache ==
    /\ InitRun({BaseConfig})
    /\ df = EmptyDF
    /\ sentiment = 0
    /\ texts = <<>>
    /\ result = NoResult
    /\ sizing = NoSizing
    /\ cache = <<>>
    /\ now = 0
    /\ world \in [api_key : BOOLEAN]
    /\ firstRows = <<>>
    /\ secondRows = <<>>
    /\ args = <<>>
    /\ dataset = FirstDataset
    /\ refreshed = FALSE
    /\ latest = 0
    /\ archives = <<>>
    /\ runs = 0
NextCache ==
    \/ CacheTick
    \/ CallFetchOverview
    \/ CallFetchEarnings
    \/ ReturnFetch
SpecCache == InitCache /\ [][NextCache]_vars

----------------------------------------------------------------------------
(* src/scheduler.py and on_start of src/main.py: the four cron jobs of the *)
(* scheduler built at startup, fired while the clock advances.             *)

\* the jobs added by build_scheduler: id, wrapped function, its argument
Jobs ==
    { [id |-> "sentiment_ingest", fn |-> "sentiment_func", mode |-> ""],
      [id |-> "open_scan", fn |-> "scan_func", mode |-> "focus"],
      [id |-> "mid_scan", fn |-> "scan_func", mode |-> "full"],
      [id |-> "close_scan", fn |-> "scan_func", mode |-> "full"] }

\* is_trading_day(dt): the XNYS schedule of the day is not empty; fails open
\* when the calendar lookup raises
is_trading_day(day, calendar) ==
    IF calendar = "raises" THEN TRUE ELSE day = "trading"

\* scan_func as on_start passes it: lambda mode: None.  started counts the
\* signal runs the call begins.
scan_func(mode) == [started |-> 0, raised |-> FALSE]

\* guarded(fn, *args): [called, started, escaped]; body is the outcome of fn
guarded(fn, day, calendar, body) ==
    IF ~is_trading_day(day, calendar)
    THEN [called |-> "none", started |-> 0, escaped |-> FALSE]
    ELSE [called |-> fn, started |-> IF body.raised THEN 0 ELSE body.started,
          escaped |-> FALSE]

\* a cron trigger fires one of the jobs
FireJob ==
    /\ ~Calling
    /\ \E job \in Jobs, day \in {"trading", "closed"}, calendar \in {"ok", "raises"},
          collected \in CollectOutcomes, fails \in BOOLEAN :
        LET sent == job.fn = "sentiment_func"
            body == IF sent THEN [started |-> 0, raised |-> fails]
                    ELSE scan_func(job.mode)
            g == guarded(job.fn, day, calendar, body)
        IN  /\ args' = [job |-> job.id, day |-> day, calendar |-> calendar,
                        dataset |-> dataset, runs |-> runs]
            /\ result' = [fn |-> "guarded", value |-> g, raised |-> g.escaped]
            /\ runs' = runs + g.started
            /\ dataset' = IF g.called = "sentiment_func" /\ ~fails
                          THEN ensure_fresh_sentiment(dataset, now, collected)
                          ELSE dataset
    /\ UNCHANGED <<cfg, pc, req, strategy, syms, rows, inp, resp, df, sentiment, texts,
                   sizing, cache, now, world, firstRows, secondRows, refreshed,
                   latest, archives>>

\* the job's lambda has returned to the scheduler
ReturnJob ==
    /\ Calling
    /\ result' = NoResult
    /\ args' = <<>>
    /\ LeafFrame

\* time passes between two jobs
JobClock == ~Calling /\ Advance

InitSched == InitFiles
NextSched ==
    \/ JobClock
    \/ FireJob
    \/ ReturnJob
SpecSched == InitSched /\ [][NextSched]_vars

----------------------------------------------------------------------------
(* src/data/fundamentals.py under concurrent callers: the HTTP handlers    *)
(* are plain functions, which the server runs on worker threads, so two    *)
(* fetches of one key interleave statement by statement.  args holds each  *)
(* thread's position in fetch_overview and its locals.                     *)

Threads == {1, 2}
RaceKey == <<"overview", FrozenSymbol>>
\* a thread outside fetch_overview
NoFetch == [pc |-> "idle", v |-> <<>>, data |-> NoOverview]

RaceFrame ==
    UNCHANGED <<cfg, pc, req, strategy, syms, rows, inp, resp, df, sentiment, texts,
                result, sizing, now, world, firstRows, secondRows, dataset,
                refreshed, latest, archives, runs>>

\* _cache_get: v = _cache.get(k); if not v: return None
ReadEntry ==
    \E t \in Threads :
        /\ args[t].pc = "idle"
        /\ args' = [args EXCEPT ![t] =
                      IF RaceKey \in DOMAIN cache
                      THEN [pc |-> "check", v |-> <<cache[RaceKey]>>, data |-> NoOverview]
                      ELSE [pc |-> "ask", v |-> <<>>, data |-> NoOverview]]
        /\ UNCHANGED cache
        /\ RaceFrame

\* _cache_get: ts, data = v; if time.time() - ts > _TTL_SECONDS; else return
\* data, which the caller returns when it is truthy
CheckAge ==
    \E t \in Threads :
        /\ args[t].pc = "check"
        /\ LET v == args[t].v[1]
           IN  args' = [args EXCEPT ![t] =
                          IF now - v.ts > _TTL_SECONDS THEN [@ EXCEPT !.pc = "pop"]
                          ELSE IF v.data.empty THEN [@ EXCEPT !.pc = "ask"]
                          ELSE NoFetch]
        /\ UNCHANGED cache
        /\ RaceFrame

\* _cache_get: _cache.pop(k, None); return None
Evict ==
    \E t \in Threads :
        /\ args[t].pc = "pop"
        /\ cache' = Pop(cache, RaceKey)
        /\ args' = [args EXCEPT ![t].pc = "ask"]
        /\ RaceFrame

\* client.get(...): a 200 answer naming the symbol is kept for _cache_set,
\* anything else returns {}
AskUpstream ==
    \E t \in Threads, upstream \in OverviewResponses :
        /\ args[t].pc = "ask"
        /\ args' = [args EXCEPT ![t] =
                      IF upstream.kind = "ok" /\ upstream.data.Symbol
                      THEN [@ EXCEPT !.pc = "set", !.data = upstream.data]
                      ELSE NoFetch]
        /\ UNCHANGED cache
        /\ RaceFrame

\* _cache_set(key, data); return data
StoreEntry ==
    \E t \in Threads :
        /\ args[t].pc = "set"
        /\ cache' = _cache_set(cache, RaceKey, args[t].data, now)
        /\ args' = [args EXCEPT ![t] = NoFetch]
        /\ RaceFrame

\* time.time() moves on, whatever the threads are doing
RaceTick ==
    /\ \E dt \in {1, _TTL_SECONDS} :
        /\ (now + dt) \div _TTL_SECONDS <= MaxTicks
        /\ (now + dt) % _TTL_SECONDS <= MaxTicks
        /\ now' = now + dt
    /\ UNCHANGED <<cfg, pc, req, strategy, syms, rows, inp, resp, df, sentiment,
                   texts, result, sizing, cache, world, firstRows, secondRows,
                   args, dataset, refreshed, latest, archives, runs>>

InitRace ==
    /\ InitRun({BaseConfig})
    /\ df = EmptyDF
    /\ sentiment = 0
    /\ texts = <<>>
    /\ result = NoResult
    /\ sizing = NoSizing
    /\ cache = <<>>
    /\ now = 0
    /\ world = [api_key |-> TRUE]
    /\ firstRows = <<>>
    /\ secondRows = <<>>
    /\ args = [t \in Threads |-> NoFetch]
    /\ dataset = FirstDataset
    /\ refreshed = FALSE
    /\ latest = 0
    /\ archives = <<>>
    /\ runs = 0
NextRace ==
    \/ ReadEntry
    \/ CheckAge
    \/ Evict
    \/ AskUpstream
    \/ StoreEntry
    \/ RaceTick
SpecRace == InitRace /\ [][NextRace]_vars

----------------------------------------------------------------------------
(* src/main.py: two signal runs on worker threads of the HTTP service.     *)
(* args holds each thread's position in leveraged_etf_signals /            *)
(* momentum_smallcap_signals and its locals; a batch is named by the       *)
(* number of its run.  world.written lists the archive writes in order.   *)

\* a thread outside the signal computations
NoRun == [pc |-> "idle", run |-> 0, ts |-> 0]

OverlapFrame ==
    UNCHANGED <<cfg, pc, req, strategy, syms, rows, inp, resp, df, sentiment, texts,
                result, sizing, cache, now, firstRows, secondRows, refreshed>>

\* a handler calls the signal computation: ensure_fresh_sentiment, then the
\* loop over the symbols and out = pd.DataFrame(rows).fillna(0)
BeginRun ==
    \E t \in Threads, collected \in CollectOutcomes :
        /\ args[t].pc = "idle"
        /\ runs < MaxRuns
        /\ runs' = runs + 1
        /\ dataset' = ensure_fresh_sentiment(dataset, now, collected)
        /\ args' = [args EXCEPT ![t] = [pc |-> "stamp", run |-> runs + 1, ts |-> 0]]
        /\ UNCHANGED <<latest, archives, world>>
        /\ OverlapFrame

\* ts = datetime.now().strftime('%Y%m%d_%H%M%S')
TakeStamp ==
    \E t \in Threads :
        /\ args[t].pc = "stamp"
        /\ args' = [args EXCEPT ![t].pc = "archive", ![t].ts = now]
        /\ UNCHANGED <<latest, archives, world, dataset, runs>>
        /\ OverlapFrame

\* out.to_csv(self.data_path / f"trading_signals_{ts}.csv", index=False)
WriteArchive ==
    \E t \in Threads :
        /\ args[t].pc = "archive"
        /\ archives' = Put(archives, args[t].ts, args[t].run)
        /\ world' = [written |-> Append(world.written, args[t].run)]
        /\ args' = [args EXCEPT ![t].pc = "latest"]
        /\ UNCHANGED <<latest, dataset, runs>>
        /\ OverlapFrame

\* out.to_csv(self.data_path / "trading_signals_latest.csv", index=False);
\* return out
WriteLatest ==
    \E t \in Threads :
        /\ args[t].pc = "latest"
        /\ latest' = args[t].run
        /\ args' = [args EXCEPT ![t] = NoRun]
        /\ UNCHANGED <<archives, world, dataset, runs>>
        /\ OverlapFrame

InitOverlap ==
    /\ InitRun({BaseConfig})
    /\ df = EmptyDF
    /\ sentiment = 0
    /\ texts = <<>>
    /\ result = NoResult
    /\ sizing = NoSizing
    /\ cache = <<>>
    /\ now = 0
    /\ world = [written |-> <<>>]
    /\ firstRows = <<>>
    /\ secondRows = <<>>
    /\ args = [t \in Threads |-> NoRun]
    /\ dataset \in {NoDataset, FirstDataset}
    /\ refreshed = FALSE
    /\ latest = 0
    /\ archives = <<>>
    /\ runs = 0
NextOverlap ==
    \/ BeginRun
    \/ TakeStamp
    \/ WriteArchive
    \/ WriteLatest
    \/ Advance
SpecOverlap == InitOverlap /\ [][NextOverlap]_vars

----------------------------------------------------------------------------
(* Properties *)

\* the loop has appended the row of the symbol whose inputs are in inp
RowEmitted == pc \in {"loop", "done"} /\ rows # <<>>
LastRow == rows[Len(rows)]
\* the filter list of a row; the rows of leveraged_etf_signals carry none
FiltersOf(row) ==
    IF "meta" \in DOMAIN row THEN {row.meta.filters[i] : i \in 1..Len(row.meta.filters)}
    ELSE {}
HasData == ~IsEmpty(inp.frame)
BelowMinPrice == HasData /\ LastClose(inp.frame) < PriceMin(cfg)
Zeroed(row) == row.action = "HOLD" /\ row.enhanced_strength = 0 /\ row.confidence = 0

\* C1 as stated: under either strategy, a symbol whose last close is below the
\* configured minimum price gets a row with action HOLD, enhanced_strength 0.0,
\* confidence 0.0 and 'min_price' in its filter list.
C1_EveryStrategyGated ==
    (RowEmitted /\ BelowMinPrice) =>
        (Zeroed(LastRow) /\ "min_price" \in FiltersOf(LastRow))

\* C1 amended: under momentum_smallcap_signals, a symbol with price data whose
\* last close is below the effective minimum price (universe_guards.price_min
\* when set, else min_price) gets a row with action HOLD, enhanced_strength
\* 0.0, confidence 0.0 and 'min_price' in its filter list.  The rows of
\* leveraged_etf_signals carry no filter list at all.
C1_MomentumMinPriceGate ==
    /\ (RowEmitted /\ strategy = "momentum_smallcap" /\ BelowMinPrice) =>
            (Zeroed(LastRow) /\ "min_price" \in FiltersOf(LastRow))
    /\ (RowEmitted /\ strategy = "leveraged_etf") => "meta" \notin DOMAIN LastRow

\* a cheap symbol with a non-zero base score was gated
C1_Witness ==
    /\ pc = "done"
    /\ rows # <<>>
    /\ strategy = "momentum_smallcap"
    /\ BelowMinPrice
    /\ LastRow.strength # 0
    /\ "min_price" \in FiltersOf(LastRow)

\* which checks of the filter gate a symbol with data fails, each taken alone
FailsDollarVol == FracLess(_avg_dollar_volume(inp.frame), cfg.min_10d_dollar_volume)
FailsAvgVolume ==
    LET avg == RollingMean(Column(inp.frame, "volume"), 10, 5)
    IN  cfg.min_avg_volume # <<>> /\ ~IsNaN(avg) /\ FracLess(Val(avg), cfg.min_avg_volume[1])
FailsSector == LastRow.meta.sector # "" /\ LastRow.meta.sector \in cfg.sector_exclude
FailingFilters ==
    (IF BelowMinPrice THEN {"min_price"} ELSE {})
    \cup (IF FailsDollarVol THEN {"min_dollar_vol"} ELSE {})
    \cup (IF FailsAvgVolume THEN {"min_avg_volume"} ELSE {})
    \cup (IF FailsSector THEN {"sector_exclude"} ELSE {})
GateNames == {"no_data", "min_price", "min_dollar_vol", "min_avg_volume",
              "sector_exclude", "biotech_no_catalyst"}

\* C9 as stated: a symbol with price data that fails several filters at once
\* has the name of every failing filter in its filter list.
C9_AllFailuresRecorded ==
    (RowEmitted /\ strategy = "momentum_smallcap" /\ HasData) =>
        FailingFilters \subseteq FiltersOf(LastRow)

\* C9 amended: every failing check of the gate short-circuits.  The filter list
\* of a symbol with price data holds at most one name of the gate, the first
\* failing one in the order min_price, min_dollar_vol, min_avg_volume,
\* sector_exclude; biotech_no_catalyst can be named only when none of these
\* fails; 'earnings_window' is added to the list exactly when the earnings
\* date lies in the blackout window.
C9_FirstFailureOnly ==
    (RowEmitted /\ strategy = "momentum_smallcap" /\ HasData) =>
        LET gate == FiltersOf(LastRow) \cap GateNames
        IN  /\ Cardinality(gate) <= 1
            /\ "no_data" \notin gate
            /\ Len(LastRow.meta.filters) = Cardinality(FiltersOf(LastRow))
            /\ BelowMinPrice => gate = {"min_price"}
            /\ (~BelowMinPrice /\ FailsDollarVol) => gate = {"min_dollar_vol"}
            /\ (~BelowMinPrice /\ ~FailsDollarVol /\ FailsAvgVolume)
                    => gate = {"min_avg_volume"}
            /\ (~BelowMinPrice /\ ~FailsDollarVol /\ ~FailsAvgVolume /\ FailsSector)
                    => gate = {"sector_exclude"}
            /\ FailingFilters = {} => gate \subseteq {"biotech_no_catalyst"}
            /\ ("earnings_window" \in FiltersOf(LastRow))
                    <=> EarnBlock(cfg, LastRow.meta.last_earnings_date)

\* a symbol failing three checks and in the blackout window: only the first
\* check is named, and earnings_window
C9_Witness ==
    /\ pc = "done"
    /\ rows # <<>>
    /\ strategy = "momentum_smallcap"
    /\ HasData
    /\ Cardinality(FailingFilters) >= 3
    /\ LastRow.meta.filters = <<"min_price", "earnings_window">>

HasCatalystText == CountMatching(inp.texts) > 0
IsBiotech == LastRow.meta.sector # "" /\ LastRow.meta.sector \in cfg.sectors_biotech

\* C10 as stated: a biotech-like symbol (that passes the earlier checks of the
\* gate) none of whose recent texts is a catalyst has 'biotech_no_catalyst' in
\* its filter list, in or out of the earnings blackout window; one with a
\* catalyst text passes this filter.
C10_BiotechNeedsCatalyst ==
    (RowEmitted /\ strategy = "momentum_smallcap" /\ HasData /\ FailingFilters = {}
        /\ IsBiotech) =>
        (("biotech_no_catalyst" \in FiltersOf(LastRow)) <=> ~HasCatalystText)

\* C2 as stated: a computation that was started ends with one row per requested
\* symbol, whatever happens while one symbol is processed.
C2_BatchCompletes ==
    /\ pc # "raised"
    /\ pc = "done" =>
        /\ Len(rows) = Len(syms)
        /\ \A i \in 1..Len(rows) : rows[i].symbol = syms[i]

\* the request asks for momentum_smallcap and carries no symbols
MomentumWithoutSymbols ==
    /\ req.via \in {"GET", "POST", "RESCAN"}
    /\ req.strategy = <<"momentum_smallcap">>
    /\ Falsy(req.symbols)

\* C3 as stated: on GET /signals, POST /signals and POST /rescan, a request for
\* momentum_smallcap without symbols is answered 400 and runs no computation.
C3_SymbolsRequired ==
    MomentumWithoutSymbols => (pc = "answered" /\ resp = 400)

\* C5: _position_size returns exactly 0.0 whenever the ATR is zero or negative,
\* for every account equity and risk percentage, and raises nothing.
C5_ZeroAtrZeroSize ==
    (result.fn = "_position_size" /\ sizing.atr <= 0) =>
        (~result.raised /\ result.value = <<0>>)

\* the ATR of a flat frame long enough for the rolling mean is 0, and so is the size
C5_Witness ==
    /\ result.fn = "_position_size"
    /\ Len(df.rows) >= 7
    /\ sizing.atr = _atr(df)
    /\ sizing.atr = 0
    /\ sizing.equity > 0
    /\ cfg.atr_k = 0
    /\ result.value = <<0>>

\* C6 as stated: _position_size raises no division error, for every ATR and
\* every configuration, a risk multiplier atr_k of 0 included.
C6_NeverDivisionError ==
    result.fn = "_position_size" => ~result.raised

\* the frame lacks what the scorer requires
Unscorable(required) == df.none \/ IsEmpty(df) \/ ~(required \subseteq df.cols)

\* C7: both scorers return exactly 0.0 when the frame is None, empty or lacks
\* a required column (close; close or volume for the small-cap scorer).
C7_NeutralOnMissingInput ==
    /\ (result.fn = "score_leveraged_etf" /\ Unscorable({"close"}))
            => result.value = <<0>>
    /\ (result.fn = "score_smallcap_momentum" /\ Unscorable({"close", "volume"}))
            => result.value = <<0>>

\* the small-cap scorer was called on a frame with bars but no volume column,
\* with a sentiment and catalyst texts that would otherwise score
C7_Witness ==
    /\ result.fn = "score_smallcap_momentum"
    /\ ~df.none
    /\ Len(df.rows) >= 5
    /\ "volume" \notin df.cols
    /\ "close" \in df.cols
    /\ sentiment # 0
    /\ texts # <<>>
    /\ result.value = <<0>>

\* C8 as stated: on every non-empty frame of any length >= 1 both scorers
\* return a defined number in [-1, 1].
C8_ScoreDefinedAndBounded ==
    (result.fn \in {"score_leveraged_etf", "score_smallcap_momentum"}
        /\ ~Unscorable({"close", "volume"})) =>
        (~IsNaN(result.value) /\ Val(result.value) >= -Unit /\ Val(result.value) <= Unit)

\* the cache key of the frozen symbol's overview
OverviewKey == <<"overview", FrozenSymbol>>

\* C4: with prices, texts, upstream fundamentals and the clock frozen, a
\* second invocation of the same strategy on the same symbols returns the
\* rows (or raises as) the first one did, whatever the fundamentals cache
\* held before and whatever the first invocation left in it.
C4_FrozenInputsSameRows ==
    pc = "compared" => firstRows = secondRows

\* both invocations of momentum_smallcap done, the rows' sector served from
\* a cache entry that upstream no longer agrees with
C4_Witness ==
    /\ pc = "compared"
    /\ strategy = "momentum_smallcap"
    /\ ~firstRows.raised
    /\ firstRows.rows[1].meta.sector = "Biotechnology"
    /\ world.ov.data.Sector # "Biotechnology"
    /\ OverviewKey \in DOMAIN cache
    /\ cache[OverviewKey].ts < now

\* a computation writes its snapshots in this step
WritesSnapshots == latest' # latest

\* C12 as stated: the latest snapshot holds the batch of the most recent run
\* that wrote one, and the step in which a run writes its snapshots adds an
\* archive file and leaves every archive of an earlier run as it was, also
\* when two runs fall in the same clock second.
C12_ArchivesAppendOnly ==
    [][WritesSnapshots =>
        /\ latest' = runs
        /\ DOMAIN archives' # DOMAIN archives
        /\ \A t \in DOMAIN archives : t \in DOMAIN archives' /\ archives'[t] = archives[t]
      ]_vars

\* a computation starts in this step
StartsRun == runs' = runs + 1
\* the dataset file is absent or older than the maximum age
Stale == ~dataset.exists \/ now - dataset.mtime > MaxAgeMinutes * 60

CombinerScored ==
    result.fn = "calculate_combined_signal_score" /\ ~IsNaN(result.value.total_score)

\* the five-level action of a score e (in units of 1 / scale) with high
\* threshold 0.6 and low threshold 0.3
FiveLevels(e, scale) ==
    IF 10 * e >= 6 * scale THEN "STRONG_BUY"
    ELSE IF 10 * e >= 3 * scale THEN "BUY"
    ELSE IF 10 * e <= -6 * scale THEN "STRONG_SELL"
    ELSE IF 10 * e <= -3 * scale THEN "SELL"
    ELSE "HOLD"

\* C11 as stated: the action is the five-level function of the score, for the
\* combiner of the signal computation as for SignalEngine.
C11_FiveLevelsEverywhere ==
    /\ CombinerScored =>
            result.value.action = FiveLevels(Val(result.value.total_score), Micro)
    /\ result.fn = "generate_trading_decision" =>
            result.value.trading_signal = FiveLevels(args.final_score, Unit)

\* C11 amended: SignalEngine.generate_trading_decision maps its score to five
\* levels with thresholds 0.6 and 0.3; calculate_combined_signal_score maps
\* its total score e to three levels: BUY when e > 0.6, SELL when e < -0.6,
\* HOLD otherwise (at exactly 0.6 and -0.6 too, and for an undefined score).
C11_ThreeLevelCombiner ==
    /\ result.fn = "calculate_combined_signal_score" =>
        LET e == result.value.total_score
        IN  result.value.action =
                IF ~IsNaN(e) /\ 10 * Val(e) > 6 * Micro THEN "BUY"
                ELSE IF ~IsNaN(e) /\ 10 * Val(e) < -6 * Micro THEN "SELL"
                ELSE "HOLD"
    /\ result.fn = "generate_trading_decision" =>
            result.value.trading_signal = FiveLevels(args.final_score, Unit)

\* the combiner was called with a total of exactly 0.6 and answered HOLD
C11_Witness ==
    /\ CombinerScored
    /\ 10 * Val(result.value.total_score) = 6 * Micro
    /\ args.base = Num(Unit)
    /\ result.value.action = "HOLD"

\* generate_premium_signal was called on a defined tracking difference
PremiumScored ==
    result.fn = "generate_premium_signal" /\ ~IsNaN(args.premium_discount_pct)

MacroCalled == result.fn = "get_macro_signal"
\* both downloads delivered defined closes, five or more of the broad index
MacroData ==
    /\ MacroCalled
    /\ ~args.vix_data.raises /\ ~args.qqq_data.raises
    /\ args.vix_data.close # <<>> /\ Len(args.qqq_data.close) >= 5
    /\ ~IsNaN(ILoc(args.vix_data.close, 1))
    /\ ~IsNaN(ILoc(args.qqq_data.close, 1)) /\ ~IsNaN(ILoc(args.qqq_data.close, 5))

\* C15 as stated: vix_signal is 1 below 15, 0 in [15, 25), -1 from 25 on;
\* momentum_signal is 1 for a return above 2 %, -1 for one below -2 % and 0
\* otherwise, at exactly -2 % and +2 % too; combined_score is
\* 0.6 * vix_signal + 0.4 * momentum_signal.
C15_MacroThresholds ==
    MacroData =>
        LET vix == Val(ILoc(args.vix_data.close, 1))
            last == Val(ILoc(args.qqq_data.close, 1))
            first == Val(ILoc(args.qqq_data.close, 5))
            r == result.value
        IN  /\ r.vix_signal = (IF vix < 15 THEN Unit ELSE IF vix < 25 THEN 0 ELSE -Unit)
            /\ r.momentum_signal = (IF 100 * last > 102 * first THEN Unit
                                    ELSE IF 100 * last < 98 * first THEN -Unit
                                    ELSE 0)
            /\ Unit * r.combined_score = 600 * r.vix_signal + 400 * r.momentum_signal

\* C16 as stated: when a download of the macro filter raises or comes back
\* empty, the result is the all-zero neutral one, and the call never raises.
C16_NeutralOnAnyFailure ==
    MacroCalled =>
        /\ ~result.raised
        /\ (\/ args.vix_data.raises \/ args.qqq_data.raises
            \/ args.vix_data.close = <<>> \/ args.qqq_data.close = <<>>)
                => /\ result.value.vix_signal = 0
                   /\ result.value.momentum_signal = 0
                   /\ result.value.combined_score = 0

\* C16 amended: get_macro_signal never raises; a download that raises gives
\* the all-zero neutral result; a download that comes back empty (or, for the
\* broad index, with fewer than five rows) zeroes its own signal only, the
\* other signal is computed from its data, and combined_score is
\* 0.6 * vix_signal + 0.4 * momentum_signal.
C16_NeutralPerSource ==
    MacroCalled =>
        LET r == result.value
        IN  /\ ~result.raised
            /\ (args.vix_data.raises \/ args.qqq_data.raises)
                    => r.vix_signal = 0 /\ r.momentum_signal = 0 /\ r.combined_score = 0
            /\ (~args.vix_data.raises /\ ~args.qqq_data.raises)
                    => /\ r.vix_signal = VixSignal(args.vix_data)
                       /\ r.momentum_signal = MomentumSignal(args.qqq_data)
                       /\ args.vix_data.close = <<>> => r.vix_signal = 0
                       /\ Len(args.qqq_data.close) < 5 => r.momentum_signal = 0
                       /\ Unit * r.combined_score = 600 * r.vix_signal + 400 * r.momentum_signal

\* the volatility download came back empty, the broad index rose by 3 %, and
\* the result carries the momentum
C16_Witness ==
    /\ MacroCalled
    /\ ~args.vix_data.raises /\ args.vix_data.close = <<>>
    /\ ~args.qqq_data.raises /\ Len(args.qqq_data.close) >= 5
    /\ result.value.vix_signal = 0
    /\ result.value.momentum_signal = Unit
    /\ result.value.combined_score = 400

\* the texts of the list that match at least one pattern
Matching(ts) == {i \in DOMAIN ts : ts[i] > 0}

\* C17: catalyst_score is the number of matching texts over the number of
\* texts (to the last digit kept), 0 for the empty list, within [0, 1]; a text
\* with several hits counts as a text with one, and turning a non-matching
\* text into a matching one never lowers the score.
C17_CatalystFraction ==
    result.fn = "catalyst_score" =>
        LET ts == args.texts
            m == Cardinality(Matching(ts))
        IN  /\ ts = <<>> => result.value = 0
            /\ ts # <<>> => /\ result.value * Len(ts) <= Unit * m
                            /\ Unit * m < (result.value + 1) * Len(ts)
            /\ 0 <= result.value /\ result.value <= Unit
            /\ \A i \in Matching(ts) :
                    catalyst_score([ts EXCEPT ![i] = 1]) = result.value
            /\ \A i \in DOMAIN ts \ Matching(ts) : \A hits \in {1, 3} :
                    catalyst_score([ts EXCEPT ![i] = hits]) >= result.value

\* three texts, one of them matching three patterns, scored one third
C17_Witness ==
    /\ result.fn = "catalyst_score"
    /\ Len(args.texts) = 3
    /\ Matching(args.texts) = {2}
    /\ args.texts[2] = 3
    /\ result.value = 333

\* the rows of the same symbol as row r of frame rs that are among the last
\* `window` of that symbol up to r, by timestamp
LastOfSymbol(rs, r, window) ==
    {q \in DOMAIN rs :
        /\ rs[q].symbol = rs[r].symbol
        /\ rs[q].timestamp <= rs[r].timestamp
        /\ Cardinality({k \in DOMAIN rs : /\ rs[k].symbol = rs[r].symbol
                                          /\ rs[q].timestamp < rs[k].timestamp
                                          /\ rs[k].timestamp <= rs[r].timestamp}) < window}
\* rows lo and hi of S hold the median of the volumes of the rows in S: the
\* middle volume (lo = hi), or the two middle ones, as many rows of S at or
\* below the one as at or above the other
IsMedianPair(rs, S, lo, hi) ==
    /\ rs[lo].volume <= rs[hi].volume
    /\ (lo = hi) = (Cardinality(S) % 2 = 1)
    /\ \E below \in SUBSET (S \ {lo, hi}) :
        /\ \A q \in below : rs[q].volume <= rs[lo].volume
        /\ \A q \in S \ (below \cup {lo, hi}) : rs[q].volume >= rs[hi].volume
        /\ Cardinality(below) = Cardinality(S \ (below \cup {lo, hi}))
\* row r of frame rs has a volume above threshold times its rolling median
AboveRollingMedian(rs, r, window, threshold2) ==
    LET S == LastOfSymbol(rs, r, window)
    IN  \E lo \in S, hi \in S :
            /\ IsMedianPair(rs, S, lo, hi)
            /\ 4 * rs[r].volume > threshold2 * (rs[lo].volume + rs[hi].volume)

\* C18: detect_volume_spikes returns exactly the rows whose volume is above
\* threshold times the rolling median of the last `window` volumes of the same
\* symbol, the row itself included: each such row once, no other row, and
\* nothing for a frame without such a row, a flat one for instance; of the
\* volumes 100, 120, 110, 500, 130 with window 3 and threshold 2.0 the 500
\* alone, of 100, 105, 95 nothing.
C18_ExactlyTheSpikes ==
    result.fn = "detect_volume_spikes" =>
        LET rs == args.price_df
            out == result.value
            spikes == {r \in DOMAIN rs : AboveRollingMedian(rs, r, args.window, args.threshold2)}
        IN  /\ Len(out) = Cardinality(spikes)
            /\ \A r \in spikes : \E o \in DOMAIN out :
                    /\ out[o].symbol = rs[r].symbol
                    /\ out[o].timestamp = rs[r].timestamp
                    /\ out[o].volume = rs[r].volume
            /\ \A o \in DOMAIN out : 4 * out[o].volume > args.threshold2 * out[o].rolling_med2
            /\ (\A r \in DOMAIN rs : rs[r].volume = rs[1].volume) => out = <<>>
            /\ (rs = TestFlatFrame /\ args.window = 2) => out = <<>>
            /\ (rs = TestSpikeFrame /\ args.window = 3 /\ args.threshold2 = 4)
                    => Len(out) = 1 /\ out[1].volume = 500

\* two symbols in one frame: the 500 of SOXL follows a 100 of SOXL and a 500
\* of LABU, and is the one row returned, as a spike of SOXL
C18_Witness ==
    /\ result.fn = "detect_volume_spikes"
    /\ args.window = 2 /\ args.threshold2 = 3
    /\ Len(args.price_df) = 3
    /\ \E i, j, k \in 1..3 :
        /\ args.price_df[i] = [symbol |-> "SOXL", timestamp |-> 1, volume |-> 100]
        /\ args.price_df[j] = [symbol |-> "LABU", timestamp |-> 2, volume |-> 500]
        /\ args.price_df[k] = [symbol |-> "SOXL", timestamp |-> 3, volume |-> 500]
    /\ Len(result.value) = 1
    /\ result.value[1].symbol = "SOXL" /\ result.value[1].timestamp = 3

\* the mean of the last w closes, when there are at least m of them, is
\* above (Above) or defined (Defined): sum and count, compared crosswise
LastCloses(cl, w) == {i \in DOMAIN cl : i > Len(cl) - w}
SumOver(cl, S) == SumSeq([i \in 1..Len(cl) |-> IF i \in S THEN cl[i] ELSE 0])
FastAboveSlow(cl) ==
    /\ Len(cl) >= 5
    /\ SumOver(cl, LastCloses(cl, 5)) * Cardinality(LastCloses(cl, 20))
            > SumOver(cl, LastCloses(cl, 20)) * Cardinality(LastCloses(cl, 5))
PositiveMomentum(cl) == Len(cl) > 3 /\ cl[Len(cl)] > cl[Len(cl) - 3]

\* a row of the leveraged-ETF computation was made from a frame of closes
EtfRowMade == result.fn = "leveraged_etf_signals"

\* C19: for the leveraged-ETF strategy, a series whose fast moving average is
\* above its slow one with a positive 3-period momentum has a base score
\* above 0 and an action of BUY or STRONG_BUY; a series whose fast moving
\* average is not above the slow one (flat, declining) has an action of HOLD
\* or SELL.
C19_TrendGivesBuy ==
    EtfRowMade =>
        LET cl == Column(args.frame, "close")
        IN  /\ (FastAboveSlow(cl) /\ PositiveMomentum(cl))
                    => /\ result.value.strength > 0
                       /\ result.value.action \in {"BUY", "STRONG_BUY"}
            /\ ~FastAboveSlow(cl) => result.value.action \in {"HOLD", "SELL"}

\* seven bars ending 5 % up on a flat start: the fast average is above the
\* slow one, the momentum is not clamped, and the row is a BUY of strength 0.8
C19_Witness ==
    /\ EtfRowMade
    /\ Column(args.frame, "close") = <<20, 20, 20, 20, 21, 21, 21>>
    /\ FastAboveSlow(Column(args.frame, "close"))
    /\ result.value.strength = 800
    /\ result.value.action = "BUY"

\* the clamped momentum term of score_leveraged_etf on the frame df
MomentumTerm ==
    Val(Clamp(Num(PctChange(Column(df, "close"), 3) * 10), -Unit, Unit))

\* C20 as stated: on a non-empty frame with fewer bars than the moving
\* averages need (fewer than 5 for the slow one), the crossover component of
\* score_leveraged_etf is neutral: the score is the momentum term alone.
C20_NeutralCrossOnShortFrame ==
    (/\ result.fn = "score_leveraged_etf"
     /\ ~Unscorable({"close"})
     /\ Len(df.rows) < 5)
        => result.value = Num((400 * MomentumTerm) \div Unit)

\* C21 as stated: GET /signals answers every request for leveraged_etf or
\* momentum_smallcap, with or without symbols, with 200 or 400 and never with
\* a 5xx; the request without parameters is answered 200 with the list of rows.
C21_GetSignalsNeverFails ==
    (/\ req.via = "GET"
     /\ req.strategy \in {<<>>, <<"leveraged_etf">>, <<"momentum_smallcap">>}
     /\ pc \in {"answered", "done", "raised"})
        => /\ resp \in {200, 400}
           /\ (req.strategy = <<>> /\ req.symbols = <<>>)
                    => resp = 200 /\ Len(rows) = Len(DefaultSymbols)

\* the symbol whose inputs are in inp is rejected: it has no price data, fails
\* a check of the gate, or has its last earnings date inside the blackout
\* window (the catalyst flag of a biotech-like symbol is the negation of the
\* latter)
InEarningsWindow == EarnBlock(cfg, LastRow.meta.last_earnings_date)
Rejected ==
    \/ ~HasData
    \/ FailingFilters # {}
    \/ InEarningsWindow

\* C23: in every row of momentum_smallcap_signals the filter list is non-empty
\* exactly when the row is a rejection; a rejection row has action HOLD,
\* enhanced_action HOLD, enhanced_strength 0.0, confidence 0.0, an empty risk
\* plan, position_size 0.0 and atr 0.0; a row with an empty filter list
\* carries the total score, the action and the confidence of the combiner.
C23_FiltersIffRejected ==
    (RowEmitted /\ strategy = "momentum_smallcap") =>
        LET r == LastRow
            base == score_smallcap_momentum(inp.frame, inp.sent, inp.texts)
            comb == calculate_combined_signal_score(
                        base, generate_ta_triggers(inp.frame),
                        detect_volume_spikes(inp.frame), inp.sent)
        IN  /\ (r.meta.filters # <<>>) <=> Rejected
            /\ r.meta.filters # <<>> =>
                    /\ r.action = "HOLD" /\ r.enhanced_action = "HOLD"
                    /\ r.enhanced_strength = 0 /\ r.confidence = 0
                    /\ r.risk_plan = <<>>
                    /\ r.position_size = 0 /\ r.atr = 0
            /\ r.meta.filters = <<>> =>
                    /\ r.enhanced_strength = FillNa(comb.total_score)
                    /\ r.enhanced_action = comb.action
                    /\ r.confidence = FillNa(comb.confidence)
                    /\ r.atr = _atr(inp.frame)

\* a symbol with data and a non-zero base score, rejected for its earnings
\* date alone
C23_Witness ==
    /\ pc = "done"
    /\ rows # <<>>
    /\ strategy = "momentum_smallcap"
    /\ LastRow.meta.filters = <<"earnings_window">>
    /\ LastRow.strength # 0
    /\ LastRow.entry_price > 0
    /\ LastRow.risk_plan = <<>>

\* a row of momentum_smallcap_signals with a trade plan was made
PlanMade ==
    /\ result.fn = "momentum_smallcap_signals"
    /\ ~result.raised
    /\ result.value.risk_plan # <<>>

Fetched == result.fn \in {"fetch_overview", "fetch_earnings"}
FetchKey == <<args.kind, args.symbol>>
\* an entry written for the same symbol and query type, of age <= TTL
FreshEntry ==
    /\ FetchKey \in DOMAIN args.before
    /\ args.t - args.before[FetchKey].ts <= _TTL_SECONDS
ExpiredEntry ==
    /\ FetchKey \in DOMAIN args.before
    /\ args.t - args.before[FetchKey].ts > _TTL_SECONDS
ServedFromCache ==
    /\ ~result.value.asked
    /\ FetchKey \in DOMAIN args.before
    /\ result.value.data = args.before[FetchKey].data
\* every slot but the one of the fetched key is as it was
OtherSlotsKept ==
    \A k \in (DOMAIN args.before \cup DOMAIN cache) \ {FetchKey} :
        /\ k \in DOMAIN args.before
        /\ k \in DOMAIN cache
        /\ cache[k] = args.before[k]

\* C25: with the API key set, a fetch is served from the cache without
\* contacting upstream iff an entry of the same symbol and query type has
\* age <= 3600 s; an expired entry is never returned; a fetch touches no slot
\* but its own; a failed fetch (non-200 or exception) leaves the cache as it was
C25_CacheContract ==
    (Fetched /\ world.api_key) =>
        /\ ServedFromCache <=> FreshEntry
        /\ ExpiredEntry => result.value.asked
        /\ OtherSlotsKept
        /\ args.upstream.kind \in {"status", "exception"} /\ result.value.asked
               => cache = args.before

\* C25, the parts the code keeps: no expired entry is returned, the slots of
\* other keys are untouched, a cache hit changes nothing
C25_ExpiryAndSlots ==
    (Fetched /\ world.api_key) =>
        /\ ExpiredEntry => result.value.asked
        /\ OtherSlotsKept
        /\ ServedFromCache => FreshEntry /\ cache = args.before
\* C25: a fresh empty earnings entry, and upstream is contacted all the same
C25_EmptyEntryAskedAgain ==
    ~(/\ Fetched /\ world.api_key /\ FreshEntry
      /\ args.before[FetchKey].data.empty
      /\ result.value.asked)
\* C25: a failed fetch that found an expired entry has removed it
C25_FailedFetchEvicts ==
    ~(/\ Fetched /\ world.api_key /\ ExpiredEntry
      /\ args.upstream.kind \in {"status", "exception"}
      /\ cache # args.before)

ScanJobs == {"open_scan", "mid_scan", "close_scan"}
JobFired == result.fn = "guarded"

\* C26: a scan job fired on a trading day starts a signal computation, one
\* fired on a non-trading day invokes nothing, and no exception of the invoked
\* function leaves guarded
C26_ScanJobsCompute ==
    (JobFired /\ args.job \in ScanJobs) =>
        /\ args.day = "trading" => result.value.started = 1 /\ runs = args.runs + 1
        /\ args.day # "trading" => result.value.called = "none"
        /\ ~result.raised
\* C26: a scan job has fired on a trading day and no signal run was started
C26_ScanIsNoOp ==
    ~(/\ JobFired /\ args.job \in ScanJobs /\ args.day = "trading"
      /\ result.value.called = "scan_func" /\ runs = args.runs)
\* C26: what the wrapper does keep: nothing escapes, and with the calendar
\* answering, nothing is invoked on a non-trading day
C26_GuardHolds ==
    JobFired =>
        /\ ~result.raised
        /\ (args.day # "trading" /\ args.calendar = "ok")
               => result.value.called = "none" /\ dataset = args.dataset

OverallCalled == result.fn = "analyze_overall_premium_discount"
\* the positions of the instruments whose status is OK
OkItems ==
    {i \in 1..Len(args.results) :
        args.results[i].key \in {EtfPairs[j] : j \in 1..3}
        /\ args.results[i].v.status = "OK"}
RECURSIVE SignalSum(_)
SignalSum(S) ==
    IF S = {} THEN 0
    ELSE LET i == CHOOSE x \in S : TRUE
         IN  args.results[i].v.signal + SignalSum(S \ {i})
\* the recommendation of a mean total/n
RecommendationOf(total, n) ==
    IF 2 * total >= 3 * n THEN "STRONG_BUY"
    ELSE IF 2 * total >= n THEN "BUY"
    ELSE IF 2 * total <= -3 * n THEN "STRONG_SELL"
    ELSE IF 2 * total <= -n THEN "SELL"
    ELSE "HOLD"

\* C27: the aggregate signal is the mean of the signals of the OK instruments,
\* the recommendation follows the thresholds 1.5 / 0.5 / -0.5 / -1.5 on that
\* mean, and without an OK instrument the aggregate is 0 with HOLD
C27_MeanOfOk ==
    OverallCalled =>
        LET n == Cardinality(OkItems)
            total == SignalSum(OkItems)
        IN  IF n = 0
            THEN result.value.signal = 0 /\ result.value.recommendation = "HOLD"
            ELSE /\ n * result.value.signal = 100 * total
                 /\ result.value.recommendation = RecommendationOf(total, n)

\* C27 with the signal as round(mean, 2): within 0.005 of the mean of the OK
\* instruments, which the others do not influence
C27_RoundedMeanOfOk ==
    OverallCalled =>
        LET n == Cardinality(OkItems)
            total == SignalSum(OkItems)
        IN  IF n = 0
            THEN result.value.signal = 0 /\ result.value.recommendation = "HOLD"
            ELSE /\ 2 * Abs(n * result.value.signal - 100 * total) <= n
                 /\ result.value.recommendation = RecommendationOf(total, n)
\* C27: two OK instruments with signals 2 and 1 beside one that reports an
\* error and carries a signal: mean 1.5, STRONG_BUY
C27_Witness ==
    /\ OverallCalled
    /\ Cardinality(OkItems) = 2
    /\ SignalSum(OkItems) = 3
    /\ \E i \in 1..Len(args.results) :
          args.results[i].v.status = "ERROR" /\ args.results[i].v.signal = 2
    /\ result.value.signal = 150
    /\ result.value.recommendation = "STRONG_BUY"

\* the base score of the row's symbol, as the strategy's scorer returns it
BaseOfRow ==
    IF strategy = "momentum_smallcap"
    THEN score_smallcap_momentum(inp.frame, inp.sent, inp.texts)
    ELSE score_leveraged_etf(inp.frame)
\* the row came out of the combiner: an ETF row, or a momentum row that
\* passed the gate
Combined == "meta" \notin DOMAIN LastRow \/ LastRow.meta.filters = <<>>

\* C28: every row of either strategy has enhanced_action HOLD and a confidence
\* of at most 0.5; a row out of the combiner has enhanced_strength
\* 0.35*base + 0.15*sentiment (technical and volume scores 0), of magnitude
\* at most 0.5
C28_AlwaysHold ==
    RowEmitted =>
        /\ LastRow.enhanced_action = "HOLD"
        /\ LastRow.confidence <= 500 * Unit
        /\ Abs(LastRow.enhanced_strength) <= 500 * Unit
        /\ Combined =>
              LastRow.enhanced_strength =
                  (IF IsNaN(BaseOfRow) THEN 0
                   ELSE 350 * LastRow.strength + 150 * inp.sent)
\* C28: a row with a base score above 0.5 (base action BUY) and positive
\* sentiment, which the combiner turns into HOLD
C28_Witness ==
    /\ RowEmitted
    /\ Combined
    /\ LastRow.action = "BUY"
    /\ inp.sent > 0
    /\ LastRow.enhanced_strength > 350 * 500
    /\ LastRow.enhanced_action = "HOLD"
    /\ LastRow.confidence = LastRow.enhanced_strength

\* C29: whenever a step removes the entry of the key from the cache, the
\* removed entry is older than the TTL
C29_EvictsOnlyExpired ==
    [][(RaceKey \in DOMAIN cache /\ RaceKey \notin DOMAIN cache')
           => now - cache[RaceKey].ts > _TTL_SECONDS]_vars
\* C29: a thread is about to pop the key after finding an expired entry, and
\* the slot now holds a fresh entry written by the other thread
C29_PopOfFreshEntry ==
    ~(\E t \in Threads :
        /\ args[t].pc = "pop"
        /\ RaceKey \in DOMAIN cache
        /\ cache[RaceKey] # args[t].v[1]
        /\ now - cache[RaceKey].ts <= _TTL_SECONDS)

\* every run begun has returned, and there were at least two
RunsFinished == runs >= 2 /\ \A t \in Threads : args[t].pc = "idle"
\* the archive with the greatest timestamp in its name
NewestArchive == archives[CHOOSE a \in DOMAIN archives : \A b \in DOMAIN archives : b <= a]

\* C30: once the runs have finished, the latest snapshot holds the batch of
\* the run whose archive was written last, and it agrees with the newest
\* archive
C30_LatestIsNewest ==
    RunsFinished =>
        /\ latest = world.written[Len(world.written)]
        /\ latest = NewestArchive
\* C30: both runs finished, run 2 wrote its archive last and under the later
\* timestamp, and the latest snapshot holds the batch of run 1
C30_LatestIsOlderRun ==
    ~(/\ RunsFinished
      /\ world.written = <<1, 2>>
      /\ NewestArchive = 2
      /\ latest = 1)

====
